---- MODULE Spec2Model ----
(***************************************************************************)
(* A model of the SuiCity reconciliation script (src/update-nfts.js): the  *)
(* retry wrapper, the reference number allocator, the NFT resolver with    *)
(* its per-run cache, the updater, the balance stage and the run that      *)
(* drives them; and of the updater of the older variant of the script      *)
(* (src/unnamed/part_001).                                                 *)
(***************************************************************************)
EXTENDS Integers, Sequences, FiniteSets, TLC

(***************************************************************************)
(* JavaScript values.  A field of a stored document or of a provider       *)
(* response is a tagged value, so that the truthiness and typeof tests of  *)
(* the script are computed as JavaScript computes them.                    *)
(***************************************************************************)
Undef == [t |-> "undefined"]
Null == [t |-> "null"]
Str(s) == [t |-> "string", v |-> s]
Num(n) == [t |-> "number", v |-> n]
Obj(o) == [t |-> "object", v |-> o]
Arr(a) == [t |-> "array", v |-> a]

Truthy(x) ==
    CASE x.t = "undefined" -> FALSE
      [] x.t = "null" -> FALSE
      [] x.t = "string" -> x.v # ""
      [] x.t = "number" -> x.v # 0
      [] OTHER -> TRUE

TypeOf(x) == IF x.t = "null" THEN "object" ELSE x.t

(***************************************************************************)
(* Bounds of the model.                                                    *)
(***************************************************************************)
\* number of documents in the bindings collection at the start
NRec == 3
\* number of runs of the script in a row
MaxRuns == 2

(***************************************************************************)
(* fetchWithRetry.                                                         *)
(***************************************************************************)
MAX_RETRIES == 10
BACKOFF_TIME == 1500
RATE_LIMIT_STATUS == 429
SERVER_ERROR_STATUS == 500
OK_STATUS == 200

\* what one invocation of the wrapped query can answer
\* (an error carries its HTTP status; attempts is the count the exhaustion
\* error's message carries, 0 on every other answer)
OkResp(v) == [kind |-> "ok", value |-> v, status |-> OK_STATUS, attempts |-> 0]
ErrResp(s) == [kind |-> "error", value |-> "provider error", status |-> s, attempts |-> 0]
Pending == [kind |-> "pending", value |-> "pending", status |-> 0, attempts |-> 0]
ExhaustedError ==
    [kind |-> "error", value |-> "Max retries reached for fetchWithRetry",
     status |-> 0, attempts |-> MAX_RETRIES]

\* a faulty variant of RetryOnResponse: a 429 is retried at once, without
\* the backoff sleep
MutRetryOnResponse_NoBackoff(attempt, resp) ==
    IF resp.kind = "ok"
    THEN [pc |-> "returned", attempt |-> attempt, result |-> resp]
    ELSE IF resp.status = RATE_LIMIT_STATUS
         THEN IF attempt + 1 < MAX_RETRIES
              THEN [pc |-> "calling", attempt |-> attempt + 1, result |-> resp]
              ELSE [pc |-> "thrown", attempt |-> attempt + 1, result |-> ExhaustedError]
         ELSE [pc |-> "thrown", attempt |-> attempt, result |-> resp]

\* a faulty variant of RetryOnResponse: every error is retried
MutRetryOnResponse_NoRethrow(attempt, resp) ==
    IF resp.kind = "ok"
    THEN [pc |-> "returned", attempt |-> attempt, result |-> resp]
    ELSE [pc |-> "sleeping", attempt |-> attempt + 1, result |-> resp]

\* the try/catch of one loop iteration: what the wrapper does with one answer
\* of the wrapped query, given the attempt counter
RetryOnResponse(attempt, resp) ==
    IF resp.kind = "ok"
    THEN [pc |-> "returned", attempt |-> attempt, result |-> resp]
    ELSE IF resp.status = RATE_LIMIT_STATUS
         THEN [pc |-> "sleeping", attempt |-> attempt + 1, result |-> resp]
         ELSE [pc |-> "thrown", attempt |-> attempt, result |-> resp]

\* a faulty variant of RetryAfterSleep: the loop test is off by one
MutRetryAfterSleep_OneMore(attempt) ==
    IF attempt <= MAX_RETRIES
    THEN [pc |-> "calling", result |-> Pending]
    ELSE [pc |-> "thrown", result |-> ExhaustedError]

\* the loop test after the backoff sleep: call again, or give up
RetryAfterSleep(attempt) ==
    IF attempt < MAX_RETRIES
    THEN [pc |-> "calling", result |-> Pending]
    ELSE [pc |-> "thrown", result |-> ExhaustedError]

\* a whole call of fetchWithRetry against a wrapped query that answers the
\* responses of resps in turn: the settled outcome and the invocations and
\* sleeps it took
RECURSIVE RetryLoop(_, _, _, _)
RetryLoop(resps, attempt, calls, sleeps) ==
    IF resps = <<>>
    THEN [pc |-> "calling", result |-> Pending, calls |-> calls, sleeps |-> sleeps]
    ELSE LET r == RetryOnResponse(attempt, Head(resps))
         IN IF r.pc = "sleeping"
            THEN LET a == RetryAfterSleep(r.attempt)
                 IN IF a.pc = "calling"
                    THEN RetryLoop(Tail(resps), r.attempt, calls + 1, sleeps + 1)
                    ELSE [pc |-> a.pc, result |-> a.result,
                          calls |-> calls + 1, sleeps |-> sleeps + 1]
            ELSE [pc |-> r.pc, result |-> r.result, calls |-> calls + 1, sleeps |-> sleeps]

FetchWithRetry(resps) == RetryLoop(resps, 0, 0, 0)

VARIABLES
    rPc,        \* fetchWithRetry: "calling", "sleeping", "returned", "thrown"
    rAttempt,   \* fetchWithRetry: the attempt counter
    rFn,        \* fetchWithRetry: the wrapped query and its argument
    rResult,    \* fetchWithRetry: the value returned or the error thrown
    rTrace      \* fetchWithRetry: the invocations and sleeps so far, in order

retryVars == <<rPc, rAttempt, rFn, rResult, rTrace>>

VARIABLES
    store,      \* the bindings collection: document id -> document, or Deleted
    users,      \* the documents main loaded at the start of the run, in order
    alloc       \* generateRefNumbers: its locals (used set, bounds, counters, batch)

VARIABLES
    run,        \* main: the run's number, its position, whether it was aborted,
                \* and the counters of the summary
    backup,     \* the bindings_backup collection
    nftCache,   \* updateNftFieldsAndWalletIds: wallet address -> cached lookup
    tasks,      \* the limiter's tasks of the run, one per user with a wallet
    ops,        \* the store mutations the run has issued, in order
    lookups,    \* wallet address -> remote lookups started in this run
    hist        \* what the run before this one did

runVars == <<run, backup, nftCache, tasks, ops, lookups, hist>>

VARIABLES
    pager       \* fetchNftFromWalletCached: the provider asked and the locals of
                \* the page loop (allObjects, lastObject, the cursors requested)

VARIABLES
    bot         \* the webhook service: registeredUsers, the handlers in flight
                \* and the welcome messages delivered, per chat

vars == <<retryVars, store, users, alloc, runVars, pager, bot>>

\* no lookup is followed page by page (the other specifications)
PagerIdle == [pc |-> "idle"]

\* the webhook service is not running (the other specifications)
BotIdle == [variant |-> "none", registeredUsers |-> {}, handlers |-> <<>>,
            welcomed |-> <<>>]

\* no run of main is going on (the specifications of single functions)
RunIdle ==
    /\ run = [no |-> 0, pc |-> "idle"]
    /\ backup = <<>>
    /\ nftCache = <<>>
    /\ tasks = <<>>
    /\ ops = <<>>
    /\ lookups = <<>>
    /\ hist = <<>>

\* the retry wrapper is not running (the other specifications)
RetryIdle ==
    /\ rPc = "idle"
    /\ rAttempt = 0
    /\ rFn = [fn |-> "none", arg |-> "none"]
    /\ rResult = Pending
    /\ rTrace = <<>>

WrappedQueries ==
    {[fn |-> f, arg |-> a] : f \in {"getOwnedObjects", "getObject"}, a \in {"0xa", "0xb"}}

ErrorStatuses == {RATE_LIMIT_STATUS, SERVER_ERROR_STATUS}

(***************************************************************************)
(* The store: documents of the bindings collection.                        *)
(***************************************************************************)
Ids == 1..NRec
Deleted == [deleted |-> TRUE]
IsDoc(d) == "deleted" \notin DOMAIN d

\* collection.find().toArray(): the documents present, in natural order
RECURSIVE LoadFrom(_, _)
LoadFrom(st, i) ==
    IF i > NRec THEN <<>>
    ELSE IF IsDoc(st[i]) THEN <<st[i]>> \o LoadFrom(st, i + 1)
    ELSE LoadFrom(st, i + 1)

FindAll(st) == LoadFrom(st, 1)

\* a faulty variant of UpdateOne: the document is replaced, the fields the
\* update does not name are lost
MutUpdateOne_Replace(st, id, doc) ==
    IF id \in DOMAIN st /\ IsDoc(st[id])
    THEN [st EXCEPT ![id] = [f \in DOMAIN @ \cup DOMAIN doc |->
                                IF f \in DOMAIN doc THEN doc[f]
                                ELSE IF f = "_id" THEN @[f] ELSE Undef]]
    ELSE st

\* updateOne({_id}, {$set: doc}): the fields of doc overwrite the document's
UpdateOne(st, id, doc) ==
    IF id \in DOMAIN st /\ IsDoc(st[id])
    THEN [st EXCEPT ![id] = [f \in DOMAIN @ \cup DOMAIN doc |->
                                IF f \in DOMAIN doc THEN doc[f] ELSE @[f]]]
    ELSE st

\* bulkWrite(updates): the updateOne entries applied in order
RECURSIVE BulkWrite(_, _)
BulkWrite(st, updates) ==
    IF updates = <<>> THEN st
    ELSE BulkWrite(UpdateOne(st, Head(updates).id, Head(updates).set), Tail(updates))

\* deleteOne({_id})
DeleteOne(st, id) == IF id \in DOMAIN st THEN [st EXCEPT ![id] = Deleted] ELSE st

(***************************************************************************)
(* Documents.                                                              *)
(***************************************************************************)
Addrs == {"0xa", "0xb", "0xc"}

\* a document of the collection; every field holds a JavaScript value
Doc(id, wa, nft, walletId, nftData, nftName, ref) ==
    [_id |-> id, walletAddress |-> wa, nft |-> nft, walletId |-> walletId,
     nftData |-> nftData, nftName |-> nftName, refNumber |-> ref,
     telegramId |-> Num(7000 + id), twitterId |-> Num(9000 + id),
     population |-> Num(10 * id)]

(***************************************************************************)
(* generateRefNumbers.                                                     *)
(***************************************************************************)
LOWER_BOUND == 20000
UPPER_BOUND == 100000
WIDEN_THRESHOLD == 100
WIDEN_STEP == 100000
\* how often the model lets the draw range be widened
MaxWiden == 1

\* a faulty variant of DrawPool: the draws stay in the initial range
MutDrawPool_InitialRange(lower, upper) ==
    {n \in {LOWER_BOUND + k : k \in 1..NRec} \cup {UPPER_BOUND + 1} :
        LOWER_BOUND <= n /\ n <= UPPER_BOUND}

\* the numbers Math.random is taken to yield: a few at the bottom of the range,
\* which collide with the numbers the stored documents hold, and one above the
\* initial upper bound, which only a widened range yields
DrawPool(lower, upper) ==
    {n \in {LOWER_BOUND + k : k \in 1..NRec} \cup {UPPER_BOUND + 1} :
        lower <= n /\ n <= upper}

\* a faulty variant of NextPending: the users that hold a refNumber are taken
RECURSIVE MutNextPending_Holders(_, _)
MutNextPending_Holders(us, i) ==
    IF i > Len(us) THEN i
    ELSE IF Truthy(us[i].refNumber) THEN i
    ELSE MutNextPending_Holders(us, i + 1)

\* the first user at or after position i that has no refNumber (!user.refNumber)
RECURSIVE NextPending(_, _)
NextPending(us, i) ==
    IF i > Len(us) THEN i
    ELSE IF ~Truthy(us[i].refNumber) THEN i
    ELSE NextPending(us, i + 1)

\* the locals after the used set is read from the store, before the first draw
AllocBegin(st, us) ==
    LET first == NextPending(us, 1)
    IN [pc |-> IF first > Len(us) THEN "write" ELSE "loop",
        used |-> {st[i].refNumber.v : i \in {j \in DOMAIN st :
                     IsDoc(st[j]) /\ st[j].refNumber.t = "number"}},
        lower |-> LOWER_BOUND,
        upper |-> UPPER_BOUND,
        attemptCount |-> 0,
        widened |-> 0,
        idx |-> first,
        updates |-> <<>>]

\* a faulty variant of Has: no number is found in the set
MutHas_Never(used, refNumber) == FALSE

\* usedRefNumbers.has(refNumber)
Has(used, refNumber) == refNumber \in used

\* a faulty variant of AllocDraw: an accepted draw is not added to the used set
MutAllocDraw_NoAdd(al, us, draw) ==
    IF ~Has(al.used, draw)
    THEN LET nxt == NextPending(us, al.idx + 1)
         IN [al EXCEPT !.updates = Append(@, [id |-> us[al.idx]._id,
                                              set |-> [refNumber |-> Num(draw)]]),
                       !.idx = nxt,
                       !.attemptCount = 0,
                       !.pc = IF nxt > Len(us) THEN "write" ELSE "loop"]
    ELSE IF al.attemptCount + 1 > WIDEN_THRESHOLD
         THEN [al EXCEPT !.upper = @ + WIDEN_STEP,
                         !.attemptCount = 0, !.widened = @ + 1]
         ELSE [al EXCEPT !.attemptCount = @ + 1]

\* one iteration of the while (true) loop for the user at al.idx, Math.random
\* yielding draw
AllocDraw(al, us, draw) ==
    IF ~Has(al.used, draw)
    THEN LET nxt == NextPending(us, al.idx + 1)
         IN [al EXCEPT !.used = @ \cup {draw},
                       !.updates = Append(@, [id |-> us[al.idx]._id,
                                              set |-> [refNumber |-> Num(draw)]]),
                       !.idx = nxt,
                       !.attemptCount = 0,
                       !.pc = IF nxt > Len(us) THEN "write" ELSE "loop"]
    ELSE IF al.attemptCount + 1 > WIDEN_THRESHOLD
         THEN [al EXCEPT !.upper = @ + WIDEN_STEP,
                         !.attemptCount = 0, !.widened = @ + 1]
         ELSE [al EXCEPT !.attemptCount = @ + 1]

\* the loop run over a sequence of draws
RECURSIVE AllocRun(_, _, _)
AllocRun(al, us, draws) ==
    IF al.pc # "loop" \/ draws = <<>> THEN al
    ELSE AllocRun(AllocDraw(al, us, Head(draws)), us, Tail(draws))

\* the bulk write that ends generateRefNumbers (none when the batch is empty)
AllocWrite(st, al) == IF Len(al.updates) > 0 THEN BulkWrite(st, al.updates) ELSE st

AllocIdle == [pc |-> "idle"]

\* stores generateRefNumbers is run on: each document holds no refNumber or
\* one of the range, and no two hold the same
AllocStores ==
    {st \in [Ids -> {Doc(0, Str("0xa"), Undef, Undef, Undef, Undef, r) :
                        r \in {Undef} \cup {Num(LOWER_BOUND + k) : k \in 1..NRec}}] :
        \A i, j \in Ids : (i # j /\ Truthy(st[i].refNumber))
                             => st[i].refNumber # st[j].refNumber}

AllocInit ==
    /\ RetryIdle
    /\ \E st \in AllocStores :
          store = [i \in Ids |-> [st[i] EXCEPT !._id = i]]
    /\ users = FindAll(store)
    /\ alloc = AllocIdle
    /\ pager = PagerIdle
    /\ bot = BotIdle
    /\ RunIdle

\* generateRefNumbers is entered: the existing refNumbers are read
AllocEnter ==
    /\ alloc.pc = "idle"
    /\ alloc' = AllocBegin(store, users)
    /\ UNCHANGED <<retryVars, pager, bot, store, users, runVars>>

\* one draw of the loop
AllocDrawStep ==
    /\ alloc.pc = "loop"
    /\ \E draw \in DrawPool(alloc.lower, alloc.upper) :
          /\ AllocDraw(alloc, users, draw).widened <= MaxWiden
          /\ alloc' = AllocDraw(alloc, users, draw)
    /\ UNCHANGED <<retryVars, pager, bot, store, users, runVars>>

\* the batch is written
AllocBulkWrite ==
    /\ alloc.pc = "write"
    /\ store' = AllocWrite(store, alloc)
    /\ alloc' = [alloc EXCEPT !.pc = "done"]
    /\ UNCHANGED <<retryVars, pager, bot, users, runVars>>

AllocNext == AllocEnter \/ AllocDrawStep \/ AllocBulkWrite

SpecAlloc == AllocInit /\ [][AllocNext]_vars

\* every number Math.random is taken to yield, in the initial range or in a
\* widened one
Draws == {LOWER_BOUND + k : k \in 1..NRec} \cup {UPPER_BOUND + 1}

\* the users main loaded, a stale view of the store: of the documents of
\* stale, which were given their refNumber since, the users hold none
StaleUsers(st, stale) ==
    [i \in 1..Len(FindAll(st)) |->
        IF FindAll(st)[i]._id \in stale
        THEN [FindAll(st)[i] EXCEPT !.refNumber = Undef] ELSE FindAll(st)[i]]

\* generateRefNumbers on any used set and any pending records: the users
\* were loaded before some documents were given their refNumber, so that the
\* numbers drawn from the initial range may all be in use (which document
\* holds which number makes no difference to the loop: document i holds
\* LOWER_BOUND + i or nothing); the pending records are no more than the free
\* numbers drawn within MaxWiden widenings
AllocFairInit ==
    /\ RetryIdle
    /\ RunIdle
    /\ pager = PagerIdle
    /\ bot = BotIdle
    /\ alloc = AllocIdle
    /\ \E st \in {s \in AllocStores : \A i \in Ids :
                      s[i].refNumber \in {Undef, Num(LOWER_BOUND + i)}} :
          store = [i \in Ids |-> [st[i] EXCEPT !._id = i]]
    /\ \E stale \in SUBSET Ids : users = StaleUsers(store, stale)
    /\ Cardinality({i \in 1..Len(users) : ~Truthy(users[i].refNumber)})
         <= Cardinality(Draws \ {store[i].refNumber.v : i \in {j \in Ids :
                                      Truthy(store[j].refNumber)}})

\* the ranges widened more than MaxWiden times are not told apart: they
\* yield the same draws
Saturated(al) ==
    IF al.widened > MaxWiden
    THEN [al EXCEPT !.widened = MaxWiden, !.upper = UPPER_BOUND + MaxWiden * WIDEN_STEP]
    ELSE al

\* the loop draws the number d, as often as it takes
AllocDrawOf(d) ==
    /\ alloc.pc = "loop"
    /\ d \in DrawPool(alloc.lower, alloc.upper)
    /\ alloc' = Saturated(AllocDraw(alloc, users, d))
    /\ UNCHANGED <<retryVars, pager, bot, store, users, runVars>>

AllocFairNext == AllocEnter \/ (\E d \in Draws : AllocDrawOf(d)) \/ AllocBulkWrite

\* Math.random is fair: a number of the range is drawn sooner or later, and
\* the queries of the function settle
AllocFairness ==
    /\ WF_vars(AllocEnter \/ AllocBulkWrite)
    /\ \A d \in Draws : WF_vars(AllocDrawOf(d))

SpecAllocFair == AllocFairInit /\ [][AllocFairNext]_vars /\ AllocFairness

(***************************************************************************)
(* generateRefNumbers with Math.random yielding a given sequence of draws. *)
(***************************************************************************)
\* the longest sequence of draws, but for the one that widens the range
MaxScript == 3

\* the numbers drawn: those the stored documents may hold, and one above them
FREE_DRAW == 20050
ScriptPool == {LOWER_BOUND + k : k \in 1..NRec} \cup {FREE_DRAW}

\* the sequences of draws: the short ones, and the one that yields the first
\* number over and over until the range is widened, and a free number then
DrawScripts ==
    UNION {[1..n -> ScriptPool] : n \in 0..MaxScript}
    \cup {[i \in 1..(WIDEN_THRESHOLD + 2) |->
             IF i <= WIDEN_THRESHOLD + 1 THEN LOWER_BOUND + 1 ELSE FREE_DRAW]}

\* the locals before the first draw, with the draws to come (script), the
\* draws made (drawn), the draws that collided for the user at idx (collided)
\* and the number of collisions before each assignment (wasted)
ScriptedInit ==
    /\ RetryIdle
    /\ RunIdle
    /\ pager = PagerIdle
    /\ bot = BotIdle
    /\ \E st \in AllocStores :
          store = [i \in Ids |-> [st[i] EXCEPT !._id = i]]
    /\ users = FindAll(store)
    /\ \E script \in DrawScripts :
          alloc = AllocBegin(store, users)
                    @@ [script |-> script, drawn |-> <<>>, collided |-> 0, wasted |-> <<>>]

\* one iteration of the loop, Math.random yielding the next draw
ScriptedDraw ==
    /\ alloc.pc = "loop"
    /\ alloc.script # <<>>
    /\ LET draw == Head(alloc.script)
           al == AllocDraw(alloc, users, draw)
           assigned == Len(al.updates) > Len(alloc.updates)
       IN alloc' = [al EXCEPT !.script = Tail(@),
                              !.drawn = Append(@, draw),
                              !.collided = IF assigned THEN 0 ELSE @ + 1,
                              !.wasted = IF assigned THEN Append(@, alloc.collided) ELSE @]
    /\ UNCHANGED <<retryVars, pager, bot, store, users, runVars>>

ScriptedNext == ScriptedDraw \/ AllocBulkWrite

SpecScripted == ScriptedInit /\ [][ScriptedNext]_vars

\* the refNumbers the documents of a store hold
RefNumbersOf(st) ==
    {st[i].refNumber.v : i \in {j \in DOMAIN st : IsDoc(st[j]) /\ Truthy(st[j].refNumber)}}
RefHolders(st) == {j \in DOMAIN st : IsDoc(st[j]) /\ Truthy(st[j].refNumber)}

(***************************************************************************)
(* Claims about generateRefNumbers, checked under SpecAlloc.               *)
(***************************************************************************)

\* C1: every number the allocator assigns differs from every refNumber held
\* in the store and from every other number assigned in the run, and after
\* the bulk write the refNumbers of the store are pairwise distinct.
C1_RefNumbersUnique ==
    /\ alloc.pc \in {"loop", "write"}
         => /\ \A k \in 1..Len(alloc.updates) :
                  alloc.updates[k].set.refNumber.v \notin RefNumbersOf(store)
            /\ \A k, l \in 1..Len(alloc.updates) :
                  k # l => alloc.updates[k].set.refNumber # alloc.updates[l].set.refNumber
    /\ \A i, j \in RefHolders(store) :
          i # j => store[i].refNumber # store[j].refNumber
    /\ alloc.pc = "done"
         => \A k \in 1..Len(alloc.updates) :
               store[alloc.updates[k].id].refNumber = alloc.updates[k].set.refNumber

C1_Witness ==
    /\ alloc.pc = "done"
    /\ Len(alloc.updates) >= 1
    /\ Cardinality(RefHolders(store)) >= 2

(***************************************************************************)
(* The chain, as the provider serves it.                                   *)
(***************************************************************************)
NFT_TYPE == "0x5b9b4cd82aee3d5a942eebe9c2da38f411d82bfdfea1204f2486e45b5868b44f::nft::City"
COIN_TYPE == "0x2::coin::Coin"
\* objects per page of getOwnedObjects
PageSize == 2

\* the objects each address owns: 0xa owns a City NFT behind two coins, 0xb
\* owns no City NFT, 0xc owns a City NFT whose content has no wallet field
OwnedObjects(owner) ==
    CASE owner = "0xa" -> <<[objectId |-> "coin_a1", type |-> COIN_TYPE],
                            [objectId |-> "coin_a2", type |-> COIN_TYPE],
                            [objectId |-> "nft_a", type |-> NFT_TYPE]>>
      [] owner = "0xb" -> <<[objectId |-> "coin_b1", type |-> COIN_TYPE]>>
      [] owner = "0xc" -> <<[objectId |-> "nft_c", type |-> NFT_TYPE]>>
      [] OTHER -> <<>>

\* the answer of getObject({id, options: {showContent, showType}}): the City
\* NFTs name their wallet object, the wallet object w_a holds a SITY balance
ObjectResponse(id) ==
    [data |-> [objectId |-> id,
               type |-> IF id \in {"nft_a", "nft_old", "nft_c"} THEN NFT_TYPE ELSE "other",
               content |-> [fields |->
                   CASE id = "nft_a" ->
                          [name |-> Str("City A"), wallet |-> Str("w_a"), balance |-> Undef]
                     [] id = "nft_old" ->
                          [name |-> Str("City Old"), wallet |-> Str("w_old"), balance |-> Undef]
                     [] id = "w_a" ->
                          [name |-> Undef, wallet |-> Undef, balance |-> Num(5000)]
                     [] OTHER -> [name |-> Undef, wallet |-> Undef, balance |-> Undef]]]]

\* the position of the object a cursor names (0: from the start)
RECURSIVE CursorPos(_, _, _)
CursorPos(objs, cursor, i) ==
    IF i > Len(objs) THEN 0
    ELSE IF Str(objs[i].objectId) = cursor THEN i
    ELSE CursorPos(objs, cursor, i + 1)

Min(a, b) == IF a <= b THEN a ELSE b

\* the answer of getOwnedObjects({owner, cursor}): a page and the next cursor;
\* cursorOnLast: whether the provider names a cursor on the last page too (the
\* Sui full node does: nextCursor is the id of the last object of the page)
ProviderPageOf(objs, size, cursor, cursorOnLast) ==
    LET start == IF Truthy(cursor) THEN CursorPos(objs, cursor, 1) ELSE 0
        data == SubSeq(objs, start + 1, Min(start + size, Len(objs)))
        more == start + size < Len(objs)
    IN [data |-> data,
        nextCursor |-> IF data # <<>> /\ (more \/ cursorOnLast)
                       THEN Str(data[Len(data)].objectId) ELSE Null]

ProviderPage(owner, cursor, cursorOnLast) ==
    ProviderPageOf(OwnedObjects(owner), PageSize, cursor, cursorOnLast)

(***************************************************************************)
(* fetchNftFromWalletCached, after the cache miss.                         *)
(***************************************************************************)
\* the outcomes of the wrapped query the model draws from: how the calls of
\* one fetchWithRetry are answered
Rate429 == ErrResp(RATE_LIMIT_STATUS)
AlwaysRateLimited == [i \in 1..MAX_RETRIES |-> Rate429]

\* the n-th remote query of a resolution: the k-th is answered as sc says,
\* every other succeeds at once
QueryOutcome(n, k, sc) == FetchWithRetry(IF n = k THEN sc ELSE <<OkResp("ok")>>)

\* the while (true) page loop: all objects, or the error that ended it
RECURSIVE PageLoop(_, _, _, _, _, _, _)
PageLoop(owner, cursor, all, n, k, sc, cursorOnLast) ==
    LET q == QueryOutcome(n + 1, k, sc)
    IN IF q.pc = "thrown"
       THEN [pc |-> "thrown", error |-> q.result, objects |-> all, queries |-> n + 1]
       ELSE LET page == ProviderPage(owner, cursor, cursorOnLast)
                got == all \o page.data
            IN IF Len(page.data) = 0 \/ ~Truthy(page.nextCursor)
               THEN [pc |-> "returned", error |-> Pending, objects |-> got,
                     queries |-> n + 1]
               ELSE PageLoop(owner, Str(page.data[Len(page.data)].objectId), got,
                             n + 1, k, sc, cursorOnLast)

\* a faulty variant of FindNft: a type that starts like the configured one
\* matches too
MutFindNft_Prefix(objs, i) ==
    LET hits == {k \in i..Len(objs) :
                    objs[k].type \in {NFT_TYPE, NFT_TYPE \o "Pass"}}
    IN IF hits = {} THEN 0 ELSE CHOOSE k \in hits : \A j \in hits : k <= j

\* allObjects.find(type === NFT_TYPE): the position of the first match, or 0
RECURSIVE FindNft(_, _)
FindNft(objs, i) ==
    IF i > Len(objs) THEN 0
    ELSE IF objs[i].type = NFT_TYPE THEN i
    ELSE FindNft(objs, i + 1)

\* the resolution of one wallet address: the value returned (null, or the
\* object fetched), or the error thrown; cached says whether nftCache is set
FetchNftFromWallet(owner, k, sc, cursorOnLast) ==
    LET lp == PageLoop(owner, Null, <<>>, 0, k, sc, cursorOnLast)
    IN IF lp.pc = "thrown"
       THEN [pc |-> "thrown", error |-> lp.error, value |-> Undef, cached |-> FALSE]
       ELSE LET pos == FindNft(lp.objects, 1)
            IN IF pos = 0
               THEN [pc |-> "returned", error |-> Pending, value |-> Null, cached |-> TRUE]
               ELSE LET q == QueryOutcome(lp.queries + 1, k, sc)
                    IN IF q.pc = "thrown"
                       THEN [pc |-> "thrown", error |-> q.result, value |-> Undef,
                             cached |-> FALSE]
                       ELSE [pc |-> "returned", error |-> Pending,
                             value |-> Obj(ObjectResponse(lp.objects[pos].objectId)),
                             cached |-> TRUE]

(***************************************************************************)
(* fetchNftFromWalletCached, page by page: one lookup on its own, against  *)
(* a provider that serves any holdings in pages of any size.               *)
(***************************************************************************)
\* a type that is not the configured one, though it starts like it
NEAR_TYPE == "0x5b9b4cd82aee3d5a942eebe9c2da38f411d82bfdfea1204f2486e45b5868b44f::nft::CityPass"

\* the most objects a wallet of these lookups holds
MaxObjects == 4

ObjectIds == <<"obj_1", "obj_2", "obj_3", "obj_4", "obj_5", "obj_6">>

\* what a wallet may hold: objects of distinct ids, of any of three types
Holdings ==
    UNION {{[i \in 1..n |-> [objectId |-> ObjectIds[i], type |-> ts[i]]] :
               ts \in [1..n -> {COIN_TYPE, NFT_TYPE, NEAR_TYPE}]} : n \in 0..MaxObjects}

\* a faulty variant of NextCursor: the cursor is not taken from the last item
MutNextCursor_Restart(lastObject) == Null

\* lastObject?.data?.[lastObject.data.length - 1]?.data?.objectId || null
NextCursor(lastObject) ==
    IF lastObject = Null \/ lastObject.data = <<>> THEN Null
    ELSE Str(lastObject.data[Len(lastObject.data)].objectId)

\* the lookup of a wallet begins (after the cache miss)
PagerStart(objs, size, cursorOnLast) ==
    [pc |-> "paging", objs |-> objs, size |-> size, cursorOnLast |-> cursorOnLast,
     allObjects |-> <<>>, lastObject |-> Null, requests |-> <<>>, value |-> Undef]

\* one turn of the while (true) loop: the page behind the last object seen is
\* requested and pushed; the loop ends on an empty page or a missing cursor
PageRequest ==
    /\ pager.pc = "paging"
    /\ LET cursor == NextCursor(pager.lastObject)
           object == ProviderPageOf(pager.objs, pager.size, cursor, pager.cursorOnLast)
           got == [pager EXCEPT !.allObjects = @ \o object.data,
                                !.requests = Append(@, cursor)]
       IN pager' = IF Len(object.data) = 0 \/ ~Truthy(object.nextCursor)
                   THEN [got EXCEPT !.pc = "finding"]
                   ELSE [got EXCEPT !.lastObject = object]
    /\ UNCHANGED <<retryVars, store, users, alloc, runVars, bot>>

\* a page request, or the request of the object, fails for good:
\* fetchWithRetry throws and nothing is cached
PageThrow ==
    /\ pager.pc \in {"paging", "finding"}
    /\ pager.pc = "finding" => FindNft(pager.allObjects, 1) # 0
    /\ pager' = [pager EXCEPT !.pc = "thrown"]
    /\ UNCHANGED <<retryVars, store, users, alloc, runVars, bot>>

\* behind the loop: the first object of the configured type is looked for;
\* none caches and returns null, one is fetched, cached and returned
PageFind ==
    /\ pager.pc = "finding"
    /\ LET pos == FindNft(pager.allObjects, 1)
       IN pager' = [pager EXCEPT
                       !.pc = "returned",
                       !.value = IF pos = 0 THEN Null
                                 ELSE Obj(ObjectResponse(pager.allObjects[pos].objectId))]
    /\ UNCHANGED <<retryVars, store, users, alloc, runVars, bot>>

PagesInit ==
    /\ RetryIdle
    /\ RunIdle
    /\ store = [i \in Ids |-> Deleted]
    /\ users = <<>>
    /\ alloc = AllocIdle
    /\ \E objs \in Holdings, size \in 1..PageSize, cursorOnLast \in BOOLEAN :
          pager = PagerStart(objs, size, cursorOnLast)
    /\ bot = BotIdle

PagesNext == PageRequest \/ PageThrow \/ PageFind

SpecPages == PagesInit /\ [][PagesNext]_vars

\* the event loop runs the lookup on: every request is answered or fails
SpecPagesFair == SpecPages /\ WF_vars(PagesNext)

\* the most remote queries one resolution makes
MaxQueries == 4
CursorOnLastPage == TRUE

\* how the remote queries of one resolution may go: all succeed (at once, or
\* after a 429), or query k fails for good (an error that is no 429, at once
\* or after a 429, or 429 on every attempt)
Faults ==
    {[k |-> 1, sc |-> <<OkResp("ok")>>], [k |-> 1, sc |-> <<Rate429, OkResp("ok")>>]}
    \cup {[k |-> k, sc |-> sc] :
            k \in 1..MaxQueries,
            sc \in {<<ErrResp(SERVER_ERROR_STATUS)>>,
                    <<Rate429, ErrResp(SERVER_ERROR_STATUS)>>,
                    AlwaysRateLimited}}

\* the two reconciliation scripts of the repository
UPDATE_NFTS == "update-nfts.js"
PART_001 == "unnamed/part_001"
PART_002 == "unnamed/part_002"

\* the retry budget of the older script
LEGACY_MAX_RETRIES == 5

\* the number of rate-limit answers in a sequence of answers
RateLimitedIn(sc) == Cardinality({i \in 1..Len(sc) : sc[i] = Rate429})

\* the faults a run of a script is checked against: for the older script,
\* those that stay below its retry budget, whose outcome the budget does not
\* change
FaultsOf(script) ==
    IF script = PART_001
    THEN {f \in Faults : RateLimitedIn(f.sc) < LEGACY_MAX_RETRIES}
    ELSE Faults

(***************************************************************************)
(* updateNftFieldsAndWalletIds: the per-record decisions.                  *)
(***************************************************************************)
\* a faulty variant of TaskPlan: the shape of nft is not tested
MutTaskPlan_NoTypeCheck(user) ==
    IF Truthy(user.nft) /\ Truthy(user.walletId) /\ Truthy(user.nftData)
    THEN [fetch |-> FALSE, forceUpdate |-> FALSE]
    ELSE [fetch |-> TRUE, forceUpdate |-> FALSE]

\* a faulty variant of TaskPlan: a scalar nft alone takes the fast path
MutTaskPlan_ScalarNftSkips(user) ==
    IF Truthy(user.nft) /\ TypeOf(user.nft) = "object"
    THEN [fetch |-> TRUE, forceUpdate |-> TRUE]
    ELSE IF Truthy(user.nft) /\ TypeOf(user.nft) = "string"
         THEN [fetch |-> FALSE, forceUpdate |-> FALSE]
         ELSE [fetch |-> TRUE, forceUpdate |-> FALSE]

\* the limiter task of one user, up to its lookup: whether it resolves the
\* wallet on chain and whether the update is forced
TaskPlan(user) ==
    IF Truthy(user.nft) /\ TypeOf(user.nft) = "object"
    THEN [fetch |-> TRUE, forceUpdate |-> TRUE]
    ELSE IF /\ Truthy(user.nft) /\ Truthy(user.walletId) /\ Truthy(user.nftData)
            /\ TypeOf(user.nft) = "string"
         THEN [fetch |-> FALSE, forceUpdate |-> FALSE]
         ELSE [fetch |-> TRUE, forceUpdate |-> FALSE]

\* the older script resolves every wallet on chain and forces nothing
LegacyTaskPlan(user) == [fetch |-> TRUE, forceUpdate |-> FALSE]

NoSet == [f \in {} |-> Undef]

\* a faulty variant of Decide: the wallet field is tested after the counters
\* were raised
MutDecide_CountsFirst(user, fetchedNft, forceUpdate) ==
    IF /\ ~Truthy(fetchedNft) /\ Truthy(user.nft) /\ Truthy(user.walletId)
       /\ Truthy(user.nftData) /\ ~forceUpdate
    THEN [kind |-> "uptodate", set |-> NoSet, walletInc |-> 0, nftInc |-> 0]
    ELSE IF ~Truthy(fetchedNft)
    THEN [kind |-> "delete", set |-> NoSet, walletInc |-> 0, nftInc |-> 0]
    ELSE
      LET fetchedNftId == Str(fetchedNft.v.data.objectId)
          fields == fetchedNft.v.data.content.fields
          nftName == IF Truthy(fields.name) THEN fields.name ELSE Str("Unnamed NFT")
          walletObjectId == fields.wallet
          walletChg == user.walletId # walletObjectId
          nftChg == \/ ~Truthy(user.nft)
                    \/ user.nft # fetchedNftId
                    \/ TypeOf(user.nft) = "object"
          dataChg == ~Truthy(user.nftData) \/ walletChg \/ nftChg \/ forceUpdate
          flds == (IF walletChg THEN {"walletId", "nftName"} ELSE {})
                    \cup (IF nftChg THEN {"nft", "nftName"} ELSE {})
                    \cup (IF dataChg THEN {"nftData"} ELSE {})
      IN IF ~Truthy(walletObjectId)
         THEN [kind |-> "nowallet", set |-> NoSet,
               walletInc |-> IF walletChg THEN 1 ELSE 0,
               nftInc |-> IF nftChg THEN 1 ELSE 0]
         ELSE IF flds = {}
         THEN [kind |-> "none", set |-> NoSet, walletInc |-> 0, nftInc |-> 0]
         ELSE [kind |-> "update",
               set |-> [f \in flds |->
                          CASE f = "walletId" -> walletObjectId
                            [] f = "nftName" -> nftName
                            [] f = "nft" -> fetchedNftId
                            [] OTHER -> fetchedNft],
               walletInc |-> IF walletChg THEN 1 ELSE 0,
               nftInc |-> IF nftChg THEN 1 ELSE 0]

\* a faulty variant of Decide: the fetched object, not its id, is written to nft
MutDecide_NftAsObject(user, fetchedNft, forceUpdate) ==
    IF /\ ~Truthy(fetchedNft) /\ Truthy(user.nft) /\ Truthy(user.walletId)
       /\ Truthy(user.nftData) /\ ~forceUpdate
    THEN [kind |-> "uptodate", set |-> NoSet, walletInc |-> 0, nftInc |-> 0]
    ELSE IF ~Truthy(fetchedNft)
    THEN [kind |-> "delete", set |-> NoSet, walletInc |-> 0, nftInc |-> 0]
    ELSE
      LET fields == fetchedNft.v.data.content.fields
          nftName == IF Truthy(fields.name) THEN fields.name ELSE Str("Unnamed NFT")
          walletObjectId == fields.wallet
          walletChg == user.walletId # walletObjectId
          nftChg == \/ ~Truthy(user.nft)
                    \/ user.nft # fetchedNft
                    \/ TypeOf(user.nft) = "object"
          dataChg == ~Truthy(user.nftData) \/ walletChg \/ nftChg \/ forceUpdate
          flds == (IF walletChg THEN {"walletId", "nftName"} ELSE {})
                    \cup (IF nftChg THEN {"nft", "nftName"} ELSE {})
                    \cup (IF dataChg THEN {"nftData"} ELSE {})
      IN IF ~Truthy(walletObjectId)
         THEN [kind |-> "nowallet", set |-> NoSet, walletInc |-> 0, nftInc |-> 0]
         ELSE IF flds = {}
         THEN [kind |-> "none", set |-> NoSet, walletInc |-> 0, nftInc |-> 0]
         ELSE [kind |-> "update",
               set |-> [f \in flds |->
                          CASE f = "walletId" -> walletObjectId
                            [] f = "nftName" -> nftName
                            [] f = "nft" -> fetchedNft
                            [] OTHER -> fetchedNft],
               walletInc |-> IF walletChg THEN 1 ELSE 0,
               nftInc |-> IF nftChg THEN 1 ELSE 0]

\* the body of the for loop over the results: what is done for one user
Decide(user, fetchedNft, forceUpdate) ==
    IF /\ ~Truthy(fetchedNft) /\ Truthy(user.nft) /\ Truthy(user.walletId)
       /\ Truthy(user.nftData) /\ ~forceUpdate
    THEN [kind |-> "uptodate", set |-> NoSet, walletInc |-> 0, nftInc |-> 0]
    ELSE IF ~Truthy(fetchedNft)
    THEN [kind |-> "delete", set |-> NoSet, walletInc |-> 0, nftInc |-> 0]
    ELSE
      LET fetchedNftId == Str(fetchedNft.v.data.objectId)
          fields == fetchedNft.v.data.content.fields
          nftName == IF Truthy(fields.name) THEN fields.name ELSE Str("Unnamed NFT")
          walletObjectId == fields.wallet
          walletChg == user.walletId # walletObjectId
          nftChg == \/ ~Truthy(user.nft)
                    \/ user.nft # fetchedNftId
                    \/ TypeOf(user.nft) = "object"
          dataChg == ~Truthy(user.nftData) \/ walletChg \/ nftChg \/ forceUpdate
          flds == (IF walletChg THEN {"walletId", "nftName"} ELSE {})
                    \cup (IF nftChg THEN {"nft", "nftName"} ELSE {})
                    \cup (IF dataChg THEN {"nftData"} ELSE {})
      IN IF ~Truthy(walletObjectId)
         THEN [kind |-> "nowallet", set |-> NoSet, walletInc |-> 0, nftInc |-> 0]
         ELSE IF flds = {}
         THEN [kind |-> "none", set |-> NoSet, walletInc |-> 0, nftInc |-> 0]
         ELSE [kind |-> "update",
               set |-> [f \in flds |->
                          CASE f = "walletId" -> walletObjectId
                            [] f = "nftName" -> nftName
                            [] f = "nft" -> fetchedNftId
                            [] OTHER -> fetchedNft],
               walletInc |-> IF walletChg THEN 1 ELSE 0,
               nftInc |-> IF nftChg THEN 1 ELSE 0]

\* the body of the for loop of the older script: no deletion, and the update
\* documents are {nft, nftName} or {walletId, nftName} with nft when it changed
LegacyDecide(user, fetchedNft) ==
    IF ~Truthy(fetchedNft)
    THEN [kind |-> "skip", set |-> NoSet, walletInc |-> 0, nftInc |-> 0]
    ELSE
      LET fetchedNftId == Str(fetchedNft.v.data.objectId)
          fields == fetchedNft.v.data.content.fields
          nftName == IF Truthy(fields.name) THEN fields.name ELSE Str("Unnamed NFT")
          walletObjectId == fields.wallet
          nftChg == ~Truthy(user.nft) \/ user.nft # fetchedNftId
      IN IF ~Truthy(walletObjectId)
         THEN [kind |-> "nowallet", set |-> NoSet, walletInc |-> 0, nftInc |-> 0]
         ELSE IF user.walletId = walletObjectId
         THEN IF nftChg
              THEN [kind |-> "update",
                    set |-> [f \in {"nft", "nftName"} |->
                               IF f = "nft" THEN fetchedNftId ELSE nftName],
                    walletInc |-> 0, nftInc |-> 1]
              ELSE [kind |-> "none", set |-> NoSet, walletInc |-> 0, nftInc |-> 0]
         ELSE [kind |-> "update",
               set |-> [f \in {"walletId", "nftName"} \cup (IF nftChg THEN {"nft"} ELSE {}) |->
                          CASE f = "walletId" -> walletObjectId
                            [] f = "nftName" -> nftName
                            [] OTHER -> fetchedNftId],
               walletInc |-> 1,
               nftInc |-> IF nftChg THEN 1 ELSE 0]

\* the for loop over the results, from position i: the deletes are issued as
\* the loop meets them, the updates are collected for the bulk write
RECURSIVE DecideLoop(_, _, _, _)
DecideLoop(script, results, i, acc) ==
    IF i > Len(results) THEN acc
    ELSE LET r == results[i]
             d == IF script = PART_001
                  THEN LegacyDecide(r.user, r.fetchedNft)
                  ELSE Decide(r.user, r.fetchedNft, r.forceUpdate)
         IN DecideLoop(script, results, i + 1,
              [store |-> IF d.kind = "delete" THEN DeleteOne(acc.store, r.user._id)
                         ELSE acc.store,
               ops |-> IF d.kind = "delete"
                       THEN Append(acc.ops, [op |-> "deleteOne", id |-> r.user._id,
                                             decided |-> i, results |-> Len(results)])
                       ELSE acc.ops,
               updates |-> IF d.kind = "update"
                           THEN Append(acc.updates, [id |-> r.user._id, set |-> d.set])
                           ELSE acc.updates,
               walletIdUpdatedCount |-> acc.walletIdUpdatedCount + d.walletInc,
               nftFieldUpdatedCount |-> acc.nftFieldUpdatedCount + d.nftInc])

(***************************************************************************)
(* fetchWithRetry, step by step: one call of the wrapper on its own.       *)
(***************************************************************************)
RetryInit ==
    /\ rPc = "calling"
    /\ rAttempt = 0
    /\ rFn \in WrappedQueries
    /\ rResult = Pending
    /\ rTrace = <<>>
    /\ store = [i \in Ids |-> Deleted]
    /\ users = <<>>
    /\ alloc = [pc |-> "idle"]
    /\ pager = PagerIdle
    /\ bot = BotIdle
    /\ RunIdle

\* the wrapped query is invoked and answers
RetryInvoke ==
    /\ rPc = "calling"
    /\ \E resp \in {OkResp(rFn.fn)} \cup {ErrResp(s) : s \in ErrorStatuses} :
          /\ LET r == RetryOnResponse(rAttempt, resp)
             IN /\ rPc' = r.pc
                /\ rAttempt' = r.attempt
                /\ rResult' = r.result
          /\ rTrace' = Append(rTrace, [ev |-> "call", status |-> resp.status])
    /\ UNCHANGED <<rFn, store, users, alloc, runVars, pager, bot>>

\* the backoff sleep completes and the loop test runs
RetryWake ==
    /\ rPc = "sleeping"
    /\ LET a == RetryAfterSleep(rAttempt)
       IN /\ rPc' = a.pc
          /\ rResult' = IF a.pc = "thrown" THEN a.result ELSE rResult
    /\ rTrace' = Append(rTrace, [ev |-> "sleep", status |-> BACKOFF_TIME])
    /\ UNCHANGED <<rAttempt, rFn, store, users, alloc, runVars, pager, bot>>

RetryNext == RetryInvoke \/ RetryWake

SpecRetry == RetryInit /\ [][RetryNext]_vars

\* positions of the invocations of the wrapped query in the trace
RetryCalls == {i \in 1..Len(rTrace) : rTrace[i].ev = "call"}
RetrySleeps == {i \in 1..Len(rTrace) : rTrace[i].ev = "sleep"}

(***************************************************************************)
(* Claims about fetchWithRetry, checked under SpecRetry.                   *)
(***************************************************************************)

\* C6: a query that signals 429 on every invocation is invoked exactly
\* MAX_RETRIES times, never more, and the wrapper then fails with the
\* exhaustion error carrying the attempt count; a successful invocation's
\* result is returned and the query is not invoked again.
C6_BoundedRetry ==
    /\ Cardinality(RetryCalls) <= MAX_RETRIES
    /\ (rPc = "thrown" /\ rResult.kind = "error" /\ rResult.status # SERVER_ERROR_STATUS)
          => /\ rResult = ExhaustedError
             /\ rResult.attempts = MAX_RETRIES
             /\ Cardinality(RetryCalls) = MAX_RETRIES
             /\ \A i \in RetryCalls : rTrace[i].status = RATE_LIMIT_STATUS
    /\ ( /\ Cardinality(RetryCalls) = MAX_RETRIES
         /\ \A i \in RetryCalls : rTrace[i].status = RATE_LIMIT_STATUS
         /\ rPc # "sleeping" )
          => (rPc = "thrown" /\ rResult = ExhaustedError)
    /\ \A i \in RetryCalls :
          rTrace[i].status = OK_STATUS
            => /\ i = Len(rTrace)
               /\ rPc = "returned"
               /\ rResult = OkResp(rFn.fn)
               /\ ~ENABLED RetryNext

C6_Witness ==
    /\ rPc = "thrown"
    /\ rResult = ExhaustedError
    /\ Cardinality(RetryCalls) = MAX_RETRIES

\* C7: a failure that is not a rate-limit signal is thrown at once: it is the
\* last event of the call (no further invocation, no backoff sleep) and the
\* error thrown is the one the query raised, after any number of 429s.
C7_OtherFailurePropagates ==
    \A i \in RetryCalls :
        rTrace[i].status \notin {OK_STATUS, RATE_LIMIT_STATUS}
          => /\ i = Len(rTrace)
             /\ rPc = "thrown"
             /\ rResult = ErrResp(rTrace[i].status)
             /\ ~ENABLED RetryNext

C7_Witness ==
    /\ rPc = "thrown"
    /\ rResult = ErrResp(SERVER_ERROR_STATUS)
    /\ Cardinality(RetryCalls) > 2

\* the invocations of the trace that were answered with 429
RateLimitedCalls == {i \in RetryCalls : rTrace[i].status = RATE_LIMIT_STATUS}

\* C38: between two invocations of the wrapped query that follow each other
\* there is exactly one completed backoff sleep, of BACKOFF_TIME, and nothing
\* else; the invocation before it was answered with 429; the attempt counter
\* is the number of invocations answered with 429, and a step raises it by
\* one exactly when an invocation is answered with 429.
C38_BackoffBeforeRetry ==
    /\ [](\A i, j \in RetryCalls :
            (i < j /\ \A k \in RetryCalls : ~(i < k /\ k < j))
              => /\ j = i + 2
                 /\ rTrace[i + 1] = [ev |-> "sleep", status |-> BACKOFF_TIME]
                 /\ rTrace[i].status = RATE_LIMIT_STATUS)
    /\ [](rTrace # <<>> => rTrace[1].ev = "call")
    /\ [](rAttempt = Cardinality(RateLimitedCalls))
    /\ [][rAttempt' # rAttempt
            <=> /\ rAttempt' = rAttempt + 1
                /\ rPc = "calling"
                /\ rTrace'[Len(rTrace')] = [ev |-> "call", status |-> RATE_LIMIT_STATUS]]_vars

\* the query was invoked four times, with a sleep before each retry, and
\* answered in the end
C38_Witness ==
    /\ rPc = "returned"
    /\ Cardinality(RetryCalls) = 4
    /\ Cardinality(RetrySleeps) = 3
    /\ rAttempt = 3

(***************************************************************************)
(* The numbers of the balance report.  A balance is a raw integer over 1e3 *)
(* and grows past 32 bits, so a number is held exactly, as its thousandths *)
(* in base 1000: limb 1 counts thousandths, limb 2 units, limb 3           *)
(* thousands, and so on.  A formatted string is held as the integer part   *)
(* and the two decimals of its number, and its suffix.                     *)
(***************************************************************************)
MaxLimbs == 7

Limbs == 1..MaxLimbs

Zero == [i \in Limbs |-> 0]

RECURSIVE Pow1000(_)
Pow1000(j) == IF j = 0 THEN 1 ELSE 1000 * Pow1000(j - 1)

\* the number n * 1000^(k-2) for an integer 0 <= n < 10^9: n from limb k on
Place(n, k) ==
    [i \in Limbs |-> IF i >= k /\ i - k <= 2 THEN (n \div Pow1000(i - k)) % 1000 ELSE 0]

\* an integer, and an integer count of thousandths, as numbers
Units(n) == Place(n, 2)
Thousandths(n) == Place(n, 1)

\* a + b
RECURSIVE AddFrom(_, _, _, _)
AddFrom(a, b, i, carry) ==
    IF i > MaxLimbs THEN <<>>
    ELSE <<(a[i] + b[i] + carry) % 1000>>
           \o AddFrom(a, b, i + 1, (a[i] + b[i] + carry) \div 1000)

Add(a, b) == AddFrom(a, b, 1, 0)

\* the sign of a - b
Cmp(a, b) ==
    LET d == {i \in Limbs : a[i] # b[i]}
    IN IF d = {} THEN 0
       ELSE LET h == CHOOSE i \in d : \A j \in d : j <= i
            IN IF a[h] > b[h] THEN 1 ELSE -1

\* a - b for a >= b
RECURSIVE SubFrom(_, _, _, _)
SubFrom(a, b, i, borrow) ==
    IF i > MaxLimbs THEN <<>>
    ELSE <<(a[i] - b[i] - borrow + 1000) % 1000>>
           \o SubFrom(a, b, i + 1, IF a[i] - b[i] - borrow < 0 THEN 1 ELSE 0)

\* |a - b|
AbsDiff(a, b) == IF Cmp(a, b) >= 0 THEN SubFrom(a, b, 1, 0) ELSE SubFrom(b, a, 1, 0)

\* a * n for a small integer n >= 0
RECURSIVE MulFrom(_, _, _, _)
MulFrom(a, n, i, carry) ==
    IF i > MaxLimbs THEN <<>>
    ELSE <<(a[i] * n + carry) % 1000>>
           \o MulFrom(a, n, i + 1, (a[i] * n + carry) \div 1000)

MulSmall(a, n) == MulFrom(a, n, 1, 0)

\* the first digit of a / b, for 0 <= a < 10 * b
Digit(a, b) == CHOOSE d \in 0..9 :
                  /\ Cmp(MulSmall(b, d), a) <= 0
                  /\ Cmp(MulSmall(b, d + 1), a) > 0

\* the integer part of (acc + r / b) * 10^n, for 0 <= r < b
RECURSIVE LongDiv(_, _, _, _)
LongDiv(r, b, n, acc) ==
    IF n = 0 THEN acc
    ELSE LET r10 == MulSmall(r, 10)
             d == Digit(r10, b)
         IN LongDiv(SubFrom(r10, MulSmall(b, d), 1, 0), b, n - 1, 10 * acc + d)

\* balance >= 1000^k, for k >= 1
AtLeast(x, k) == \E i \in Limbs : i >= k + 2 /\ x[i] # 0

\* the integer part of x / 1000^k
RECURSIVE IntPart(_, _)
IntPart(x, i) == IF i > MaxLimbs THEN 0 ELSE x[i] + 1000 * IntPart(x, i + 1)

\* (x / 1000^k).toFixed(2) + suffix: the quotient rounded to two decimals,
\* half up
Fixed2(x, k, suffix) ==
    LET int == IntPart(x, k + 2)
        up == IF x[k + 1] % 10 >= 5 THEN 1 ELSE 0
        hundredths == (x[k + 1] \div 10) + up
    IN IF hundredths = 100
       THEN [int |-> int + 1, frac |-> 0, suffix |-> suffix]
       ELSE [int |-> int, frac |-> hundredths, suffix |-> suffix]

\* formatBalance, of update-nfts.js and of the older script (which knows no
\* "t" and no "b")
FormatBalance(script, balance) ==
    IF script = UPDATE_NFTS /\ AtLeast(balance, 4) THEN Fixed2(balance, 4, "t")
    ELSE IF script = UPDATE_NFTS /\ AtLeast(balance, 3) THEN Fixed2(balance, 3, "b")
    ELSE IF AtLeast(balance, 2) THEN Fixed2(balance, 2, "m")
    ELSE IF AtLeast(balance, 1) THEN Fixed2(balance, 1, "k")
    ELSE Fixed2(balance, 0, "")

\* the number int.frac * 1000^k
Scaled(val, k) ==
    [i \in Limbs |-> IF i = k + 1 THEN val.frac * 10 ELSE Place(val.int, k + 2)[i]]

\* parseBalance: "k" and "m" are removed and parseFloat reads the number the
\* string begins with (up to the "b" or the "t", if there is one); only "m"
\* and "k" scale it
ParseBalance(val) ==
    IF val.suffix = "m" THEN Scaled(val, 2)
    ELSE IF val.suffix = "k" THEN Scaled(val, 1)
    ELSE Scaled(val, 0)

(***************************************************************************)
(* main: a run of the script, and the runs that follow it.                 *)
(***************************************************************************)
CONCURRENCY == 2

OldSnapshot == Obj(ObjectResponse("nft_old"))

\* the documents a run may find in the collection, by what an earlier run or
\* the registration left in them: nothing yet, or nothing but the refNumber
\* (an address that holds a City NFT, one that holds none, one whose NFT
\* names no wallet), the fields of an
\* NFT held earlier, the embedded-object shape of nft (its address holding an
\* NFT or none), the fields without nftData, and no wallet address
InitialDocs ==
    <<Doc(0, Str("0xa"), Undef, Undef, Undef, Undef, Undef),
      Doc(0, Str("0xb"), Undef, Undef, Undef, Undef, Num(LOWER_BOUND)),
      Doc(0, Str("0xc"), Undef, Undef, Undef, Undef, Num(LOWER_BOUND)),
      Doc(0, Str("0xa"), Str("nft_old"), Str("w_old"), OldSnapshot, Str("City Old"),
          Num(LOWER_BOUND)),
      Doc(0, Str("0xa"), OldSnapshot, Str("w_old"), OldSnapshot, Str("City Old"),
          Num(LOWER_BOUND)),
      Doc(0, Str("0xb"), OldSnapshot, Str("w_old"), OldSnapshot, Str("City Old"),
          Num(LOWER_BOUND)),
      Doc(0, Str("0xa"), Str("nft_a"), Str("w_a"), Undef, Str("City A"),
          Num(LOWER_BOUND)),
      Doc(0, Undef, Undef, Undef, Undef, Undef, Undef)>>

\* the collections a run starts from: every combination of NRec documents,
\* listed in the order of InitialDocs or in the reverse order
InitialStores ==
    {ds \in [Ids -> 1..Len(InitialDocs)] :
        \/ \A i, j \in Ids : i < j => ds[i] <= ds[j]
        \/ \A i, j \in Ids : i < j => ds[i] >= ds[j]}

\* the document takes its id, and its refNumber (if it holds one) follows it
Stored(d, i) ==
    [d EXCEPT !._id = i,
              !.telegramId = Num(7000 + i),
              !.twitterId = Num(9000 + i),
              !.population = Num(10 * i),
              !.refNumber = IF Truthy(@) THEN Num(LOWER_BOUND + i) ELSE @]

\* the locals of main when a run of a script begins
\* a file the run has not written (what an earlier run left in it is not
\* followed: nothing reads the files)
NoFile == <<>>

\* the counters of countStakedSitizens, as they are initialized
NoStakes ==
    [total |-> 0, sivilian |-> 0, general |-> 0, officer |-> 0, clown |-> 0,
     engineer |-> 0, legendary |-> 0]

FirstRun(script) ==
    [no |-> 1, script |-> script, pc |-> "start", aborted |-> FALSE,
     connection |-> "none", summarySent |-> FALSE,
     updaterDone |-> FALSE, stages |-> <<>>, noneFound |-> {},
     refNumberGeneratedCount |-> 0, walletIdUpdatedCount |-> 0,
     nftFieldUpdatedCount |-> 0,
     duplicateWalletAddresses |-> <<>>, duplicateTelegramIds |-> <<>>,
     totalBalance |-> Zero, totalPopulation |-> 0,
     balancesJson |-> NoFile, sortedBalancesJson |-> NoFile,
     stakedSitizens |-> NoStakes]

InitFor(script) ==
    /\ RetryIdle
    /\ \E ds \in InitialStores : store = [i \in Ids |-> Stored(InitialDocs[ds[i]], i)]
    /\ users = <<>>
    /\ alloc = AllocIdle
    /\ pager = PagerIdle
    /\ bot = BotIdle
    /\ run = FirstRun(script)
    /\ backup = <<>>
    /\ nftCache = [a \in Addrs |-> Undef]
    /\ tasks = <<>>
    /\ ops = <<>>
    /\ lookups = [a \in Addrs |-> 0]
    /\ hist = <<>>

Init == InitFor(UPDATE_NFTS)

LegacyInit == InitFor(PART_001)

\* a faulty variant of AfterBackup: the run goes on after a failed backup
MutAfterBackup_GoOn(r, ok) ==
    [r EXCEPT !.pc = "alloc", !.stages = IF ok THEN Append(@, "backup") ELSE @]

\* where main stands after the $out aggregation: at the load of the documents
\* when it completed, in the catch block (and then finally) when it threw
AfterBackup(r, ok) ==
    IF ok THEN [r EXCEPT !.pc = "alloc", !.stages = Append(@, "backup")]
    ELSE [r EXCEPT !.pc = "closing", !.aborted = TRUE]

\* where main stands after client.connect(): at the backup when it connected,
\* in the catch block (and then finally) when it threw
AfterConnect(r, connected) ==
    IF connected THEN [r EXCEPT !.connection = "open"]
    ELSE [r EXCEPT !.pc = "closing", !.aborted = TRUE]

\* connect, copy the collection to bindings_backup, load every document; the
\* connect may throw, and the aggregation either completes (bindings_backup
\* is replaced by the copy) or throws (bindings_backup is left as it was)
RunStart ==
    /\ run.pc = "start"
    /\ \E connected, ok \in BOOLEAN :
          /\ run' = IF connected THEN AfterBackup(AfterConnect(run, TRUE), ok)
                    ELSE AfterConnect(run, FALSE)
          /\ backup' = IF connected /\ ok THEN store ELSE backup
    /\ users' = IF run'.pc = "alloc" THEN FindAll(store) ELSE users
    /\ UNCHANGED <<retryVars, pager, bot, store, alloc, nftCache, tasks, ops, lookups, hist>>

\* the most draws of Math.random one call of the allocator is followed for
MaxDraws == NRec + 1

\* the locals generateRefNumbers may end its loop with, within depth draws
RECURSIVE AllocOutcomes(_, _, _)
AllocOutcomes(al, us, depth) ==
    IF al.pc # "loop" THEN {al}
    ELSE IF depth = 0 THEN {}
    ELSE UNION {AllocOutcomes(AllocDraw(al, us, d), us, depth - 1) :
                   d \in DrawPool(al.lower, al.upper)}

\* generateRefNumbers, from the read of the used numbers to the bulk write
GenerateRefNumbers ==
    /\ run.pc = "alloc"
    /\ \E al \in AllocOutcomes(AllocBegin(store, users), users, MaxDraws) :
          /\ store' = AllocWrite(store, al)
          /\ ops' = IF Len(al.updates) > 0
                    THEN Append(ops, [op |-> "bulkWrite", stage |-> "alloc",
                                      updates |-> al.updates])
                    ELSE ops
          /\ run' = [run EXCEPT !.pc = "updater",
                                !.stages = Append(@, "alloc"),
                                !.refNumberGeneratedCount = Len(al.updates)]
    /\ UNCHANGED <<retryVars, pager, bot, users, alloc, backup, nftCache, tasks, lookups, hist>>

\* a faulty variant of HasWallet: no user is filtered out
MutHasWallet_All(u) == TRUE

HasWallet(u) == Truthy(u.walletAddress)

\* a task handed to the limiter: the updater's lookup for a user, or the
\* balance fetch for a user
Task(kind, user) ==
    [kind |-> kind, user |-> user, st |-> "queued", looked |-> FALSE,
     fetchedNft |-> Undef, forceUpdate |-> FALSE, error |-> Pending, sityBalance |-> Zero]

\* updateNftFieldsAndWalletIds is entered: a fresh cache, and one limiter
\* task per user with a wallet address, all queued together
UpdaterLaunch ==
    /\ run.pc = "updater"
    /\ nftCache' = [a \in Addrs |-> Undef]
    /\ LET validUsers == SelectSeq(users, HasWallet)
       IN tasks' = [i \in 1..Len(validUsers) |-> Task("nft", validUsers[i])]
    /\ lookups' = [a \in Addrs |-> 0]
    /\ run' = [run EXCEPT !.pc = "awaiting"]
    /\ UNCHANGED <<retryVars, pager, bot, store, users, alloc, backup, ops, hist>>

\* the tasks the limiter has started and that have not settled
Active == {i \in 1..Len(tasks) : tasks[i].st = "fetching"}
Queued == {i \in 1..Len(tasks) : tasks[i].st = "queued"}

\* a faulty variant of LimiterHasSlot: no cap
MutLimiterHasSlot_NoLimit(active) == TRUE

\* whether the limiter may start a queued task: a slot is free
LimiterHasSlot(active) == Cardinality(active) < CONCURRENCY

\* the cache test that opens fetchNftFromWalletCached
CacheHit(cache, a) == cache[a] # Undef

\* the resolver returned "none found" for the user of a task
NoteNoneFound(r, user, value) ==
    IF value = Null THEN [r EXCEPT !.noneFound = @ \cup {user._id}] ELSE r

\* the limiter starts the oldest queued task, which runs up to its first
\* await.  A lookup: the fast path returns at once, a cached address returns
\* the cached value, any other starts the remote lookup.  A balance fetch: a
\* user without walletId yields 0 at once, any other starts the remote fetch.
TaskStart(i) ==
    /\ i \in Queued
    /\ \A j \in Queued : i <= j
    /\ LimiterHasSlot(Active)
    /\ LET u == tasks[i].user
       IN IF tasks[i].kind = "balance"
          THEN /\ tasks' = IF Truthy(u.walletId)
                           THEN [tasks EXCEPT ![i].st = "fetching"]
                           ELSE [tasks EXCEPT ![i].st = "done", ![i].sityBalance = Zero]
               /\ UNCHANGED <<lookups, run>>
          ELSE LET a == u.walletAddress.v
                   plan == IF run.script = PART_001 THEN LegacyTaskPlan(u) ELSE TaskPlan(u)
               IN IF ~plan.fetch
                  THEN /\ tasks' = [tasks EXCEPT ![i].st = "done", ![i].fetchedNft = Null]
                       /\ UNCHANGED <<lookups, run>>
                  ELSE IF CacheHit(nftCache, a)
                  THEN /\ tasks' = [tasks EXCEPT ![i].st = "done", ![i].looked = TRUE,
                                                 ![i].fetchedNft = nftCache[a],
                                                 ![i].forceUpdate = plan.forceUpdate]
                       /\ run' = NoteNoneFound(run, u, nftCache[a])
                       /\ UNCHANGED lookups
                  ELSE /\ tasks' = [tasks EXCEPT ![i].st = "fetching",
                                                 ![i].forceUpdate = plan.forceUpdate]
                       /\ lookups' = [lookups EXCEPT ![a] = @ + 1]
                       /\ UNCHANGED run
    /\ UNCHANGED <<retryVars, pager, bot, store, users, alloc, backup, nftCache, ops, hist>>

\* a faulty variant of Finally: the connection is closed at the end of the
\* try block, which a run that threw does not reach
MutFinally_EndOfTry(r) ==
    [r EXCEPT !.pc = "closed", !.connection = IF r.aborted THEN @ ELSE "closed"]

\* the finally block of main: client.close(), whatever came before
Finally(r) == [r EXCEPT !.pc = "closed", !.connection = "closed"]

\* what a rejected task does to the run: Promise.all rejects, the stage
\* throws, main logs the error in its catch and closes the connection in its
\* finally; no later stage runs
OnTaskRejected(r) ==
    IF r.pc \in {"awaiting", "balancing"} THEN Finally([r EXCEPT !.aborted = TRUE]) ELSE r

\* the ways the remote lookup of a wallet address may end
LookupOutcomes(script, a) ==
    {FetchNftFromWallet(a, f.k, f.sc, CursorOnLastPage) : f \in FaultsOf(script)}

\* a faulty variant of FetchSityBalance: the error of the fetch is not caught
MutFetchSityBalance_NoCatch(walletId, sc) ==
    LET q == FetchWithRetry(sc)
        balance == ObjectResponse(walletId).data.content.fields.balance
    IN IF q.pc = "thrown"
       THEN [pc |-> "thrown", sityBalance |-> Zero, error |-> q.result]
       ELSE [pc |-> "returned", error |-> Pending,
             sityBalance |-> Thousandths(IF Truthy(balance) THEN balance.v ELSE 0)]

\* fetchSityBalance: it returns the balance of the wallet object over 1e3, or
\* 0 when the fetch throws (the error is caught and logged)
FetchSityBalance(walletId, sc) ==
    LET q == FetchWithRetry(sc)
        balance == ObjectResponse(walletId).data.content.fields.balance
    IN IF q.pc = "thrown"
       THEN [pc |-> "returned", sityBalance |-> Zero, error |-> q.result]
       ELSE [pc |-> "returned", error |-> Pending,
             sityBalance |-> Thousandths(IF Truthy(balance) THEN balance.v ELSE 0)]

BalanceOutcomes(script, walletId) ==
    {FetchSityBalance(walletId, f.sc) : f \in FaultsOf(script)}

\* the outcomes by script and by wallet address or wallet object, tabulated
Scripts == {UPDATE_NFTS, PART_001}
WalletIds == {"w_a", "w_old"}
LookupTable == [s \in Scripts, a \in Addrs |-> LookupOutcomes(s, a)]
BalanceTable == [s \in Scripts, w \in WalletIds |-> BalanceOutcomes(s, w)]

\* the remote call of a task settles.  A lookup: the value is cached and
\* returned, or the error of the failing query is thrown out of the task.
\* A balance fetch: the balance, or 0 after an error.
TaskSettle(i) ==
    /\ i \in Active
    /\ IF tasks[i].kind = "balance"
       THEN /\ \E b \in BalanceTable[run.script, tasks[i].user.walletId.v] :
                  IF b.pc = "returned"
                  THEN /\ tasks' = [tasks EXCEPT ![i].st = "done",
                                                 ![i].sityBalance = b.sityBalance]
                       /\ UNCHANGED run
                  ELSE /\ tasks' = [tasks EXCEPT ![i].st = "rejected", ![i].error = b.error]
                       /\ run' = OnTaskRejected(run)
            /\ UNCHANGED nftCache
       ELSE \E r \in LookupTable[run.script, tasks[i].user.walletAddress.v] :
              LET a == tasks[i].user.walletAddress.v
              IN IF r.pc = "returned"
                 THEN /\ nftCache' = [nftCache EXCEPT ![a] = r.value]
                      /\ tasks' = [tasks EXCEPT ![i].st = "done", ![i].looked = TRUE,
                                                ![i].fetchedNft = r.value]
                      /\ run' = NoteNoneFound(run, tasks[i].user, r.value)
                 ELSE /\ tasks' = [tasks EXCEPT ![i].st = "rejected", ![i].error = r.error]
                      /\ run' = OnTaskRejected(run)
                      /\ UNCHANGED nftCache
    /\ UNCHANGED <<retryVars, pager, bot, store, users, alloc, backup, ops, lookups, hist>>

\* every task has returned: the loop over the results and the bulk write;
\* the updater returns its counts and its locals are gone
UpdaterDecide ==
    /\ run.pc = "awaiting"
    /\ \A i \in 1..Len(tasks) : tasks[i].st = "done"
    /\ LET d == DecideLoop(run.script, tasks, 1,
                   [store |-> store, ops |-> ops, updates |-> <<>>,
                    walletIdUpdatedCount |-> 0, nftFieldUpdatedCount |-> 0])
       IN /\ store' = IF Len(d.updates) > 0 THEN BulkWrite(d.store, d.updates)
                      ELSE d.store
          /\ ops' = IF Len(d.updates) > 0
                    THEN Append(d.ops, [op |-> "bulkWrite", stage |-> "updater",
                                        updates |-> d.updates])
                    ELSE d.ops
          /\ run' = [run EXCEPT !.pc = "dupscan", !.updaterDone = TRUE,
                                !.stages = Append(@, "updater"),
                                !.walletIdUpdatedCount = d.walletIdUpdatedCount,
                                !.nftFieldUpdatedCount = d.nftFieldUpdatedCount]
    /\ nftCache' = [a \in Addrs |-> Undef]
    /\ lookups' = [a \in Addrs |-> 0]
    /\ tasks' = <<>>
    /\ UNCHANGED <<retryVars, pager, bot, users, alloc, backup, hist>>

\* the property key a value is converted to when it indexes an object
ToKey(x) == IF x.t = "number" THEN ToString(x.v) ELSE x.v

\* a new property of a counting object: integer keys come first, in ascending
\* order, the other keys follow in the order they were added (the order
\* Object.entries lists them in)
InsertKey(obj, e) ==
    IF e.index
    THEN LET before == {k \in 1..Len(obj) : obj[k].index /\ obj[k].n < e.n}
         IN [k \in 1..(Len(obj) + 1) |->
                IF k <= Cardinality(before) THEN obj[k]
                ELSE IF k = Cardinality(before) + 1 THEN e
                ELSE obj[k - 1]]
    ELSE Append(obj, e)

\* a faulty variant of CountKey: a key met again is added as a new property
MutCountKey_NoMerge(obj, x) ==
    Append(obj, [key |-> ToKey(x), index |-> FALSE, n |-> 0, count |-> 1])

\* count[x] = (count[x] || 0) + 1
CountKey(obj, x) ==
    LET hit == {k \in 1..Len(obj) : obj[k].key = ToKey(x)}
    IN IF hit # {}
       THEN [k \in 1..Len(obj) |->
                IF k \in hit THEN [obj[k] EXCEPT !.count = @ + 1] ELSE obj[k]]
       ELSE InsertKey(obj, [key |-> ToKey(x), index |-> (x.t = "number"),
                            n |-> IF x.t = "number" THEN x.v ELSE 0, count |-> 1])

\* the counting loop over the loaded users, for one field
RECURSIVE CountLoop(_, _, _, _)
CountLoop(us, i, f, obj) ==
    IF i > Len(us) THEN obj
    ELSE CountLoop(us, i + 1, f,
                   IF Truthy(us[i][f]) THEN CountKey(obj, us[i][f]) ELSE obj)

\* the keys counted more than once, as Object.entries(...).filter(...).map(...)
\* lists them
DuplicatesOf(us, f) ==
    LET dups == SelectSeq(CountLoop(us, 1, f, <<>>), LAMBDA e : e.count > 1)
    IN [k \in 1..Len(dups) |-> Str(dups[k].key)]

\* the duplicate scan over the loaded users
DupScan ==
    /\ run.pc = "dupscan"
    /\ run' = [run EXCEPT !.pc = "aggregate",
                          !.stages = Append(@, "dupscan"),
                          !.duplicateWalletAddresses = DuplicatesOf(users, "walletAddress"),
                          !.duplicateTelegramIds = DuplicatesOf(users, "telegramId")]
    /\ UNCHANGED <<retryVars, pager, bot, store, users, alloc, backup, nftCache, tasks, ops,
                   lookups, hist>>

\* doc.nftData?.content?.fields?.extra_nested_data
ExtraNestedData(doc) ==
    IF doc.nftData.t # "object" THEN Undef
    ELSE IF "content" \notin DOMAIN doc.nftData.v THEN Undef
    ELSE IF "extra_nested_data" \notin DOMAIN doc.nftData.v.content.fields THEN Undef
    ELSE doc.nftData.v.content.fields.extra_nested_data

\* parseInt(s, 10) for the strings the stake lists hold: an integer, or NaN
Int10(n) == [nan |-> FALSE, v |-> n]
NaN == [nan |-> TRUE, v |-> 0]

ParseInt(s) ==
    CASE s = "0" -> Int10(0) [] s = "1" -> Int10(1) [] s = "2" -> Int10(2)
      [] s = "3" -> Int10(3) [] s = "4" -> Int10(4) [] s = "5" -> Int10(5)
      [] s = "7" -> Int10(7) [] s = "-1" -> Int10(0 - 1) [] OTHER -> NaN

typeNames == <<"sivilian", "general", "officer", "clown", "engineer", "legendary">>

\* the counters after one entry of stakedNfts, at index i (from 0). In
\* update-nfts.js every entry counts one, for the type its value names ("0" to
\* "5"; another value only counts in the total). In part_002 the entry is a
\* count and the index names the type.
CountEntry(script, types, entry, i) ==
    IF script = PART_002
    THEN LET count == ParseInt(IF Truthy(entry) THEN entry.v ELSE "0")
         IN IF i < Len(typeNames) /\ ~count.nan /\ count.v > 0
            THEN [types EXCEPT ![typeNames[i + 1]] = @ + count.v,
                               !.total = @ + count.v]
            ELSE types
    ELSE LET known == {k \in 1..Len(typeNames) : entry = Str(ToString(k - 1))}
         IN IF known = {} THEN [types EXCEPT !.total = @ + 1]
            ELSE [types EXCEPT ![typeNames[CHOOSE k \in known : TRUE]] = @ + 1,
                               !.total = @ + 1]

RECURSIVE CountEntries(_, _, _, _)
CountEntries(script, types, stakedNfts, i) ==
    IF i >= Len(stakedNfts) THEN types
    ELSE CountEntries(script, CountEntry(script, types, stakedNfts[i + 1], i),
                      stakedNfts, i + 1)

\* the body of cursor.forEach for one document
CountDoc(script, types, doc) ==
    LET extraNestedData == ExtraNestedData(doc)
    IN IF /\ Truthy(extraNestedData)
          /\ extraNestedData.t = "array"
          /\ Len(extraNestedData.v) = 2
          /\ extraNestedData.v[2].t = "array"
       THEN CountEntries(script, types, extraNestedData.v[2].v, 0)
       ELSE types

\* countStakedSitizens over the documents of the collection
RECURSIVE CountStakedSitizens(_, _, _, _)
CountStakedSitizens(script, types, docs, i) ==
    IF i > Len(docs) THEN types
    ELSE CountStakedSitizens(script, CountDoc(script, types, docs[i]), docs, i + 1)

\* main of update-nfts.js counts the staked Sitizens between the duplicate
\* scan and the balances (it only reads the collection); the older script
\* goes on to the balances at once; main of part_002 does nothing else
CountStaked ==
    /\ run.pc = "aggregate"
    /\ run' = [run EXCEPT
                 !.pc = "balances",
                 !.stakedSitizens =
                     IF run.script = PART_001 THEN @
                     ELSE CountStakedSitizens(run.script, NoStakes, FindAll(store), 1)]
    /\ UNCHANGED <<retryVars, pager, bot, store, users, alloc, backup, nftCache, tasks, ops,
                   lookups, hist>>

\* a faulty variant of BalanceUsers: the users main loaded are used
MutBalanceUsers_Loaded(st, us) == us

\* const users = await collection.find().toArray() of fetchAndStoreBalances:
\* the documents are read again, the users of main are not passed in
BalanceUsers(st, us) == FindAll(st)

\* fetchAndStoreBalances is entered: the documents are loaded again and one
\* limiter task per document is queued
BalancesLaunch ==
    /\ run.pc = "balances"
    /\ LET docs == BalanceUsers(store, users)
       IN tasks' = [i \in 1..Len(docs) |-> Task("balance", docs[i])]
    /\ run' = [run EXCEPT !.pc = "balancing"]
    /\ UNCHANGED <<retryVars, pager, bot, store, users, alloc, backup, nftCache, ops, lookups, hist>>

\* totalBalance and totalPopulation: the sums over the results from position i
RECURSIVE SumBalance(_, _)
SumBalance(ts, i) ==
    IF i > Len(ts) THEN Zero ELSE Add(ts[i].sityBalance, SumBalance(ts, i + 1))

RECURSIVE SumPopulation(_, _)
SumPopulation(ts, i) ==
    IF i > Len(ts) THEN 0
    ELSE (IF Truthy(ts[i].user.population) THEN ts[i].user.population.v ELSE 0)
           + SumPopulation(ts, i + 1)

\* n.toFixed(2) + "%" for a number n of h hundredths, and for NaN
Percent(h) == [nan |-> FALSE, hundredths |-> h]
NaNPercent == [nan |-> TRUE, hundredths |-> 0]

\* (sityBalance / totalBalance) * 100 as toFixed(2) prints it: the quotient
\* to three decimals of a percent, rounded to two; 0 / 0 is NaN.  No balance
\* is negative, and none exceeds the total
Ratio100(sityBalance, totalBalance) ==
    IF totalBalance = Zero THEN NaNPercent
    ELSE LET q == Digit(sityBalance, totalBalance)
             r == SubFrom(sityBalance, MulSmall(totalBalance, q), 1, 0)
         IN Percent((LongDiv(r, totalBalance, 5, q) + 5) \div 10)

\* a faulty variant of PercentageHolding: the total is not tested
MutPercentageHolding_NoGuard(sityBalance, totalBalance) ==
    Ratio100(sityBalance, totalBalance)

\* totalBalance > 0 ? (sityBalance / totalBalance) * 100 : 0, to two decimals
PercentageHolding(sityBalance, totalBalance) ==
    IF Cmp(totalBalance, Zero) > 0 THEN Ratio100(sityBalance, totalBalance)
    ELSE Percent(0)

\* the entry of userBalances made of a result
BalanceEntry(script, t, totalBalance) ==
    [twitterId |-> t.user.twitterId,
     walletAddress |-> t.user.walletAddress,
     sityBalance |-> FormatBalance(script, t.sityBalance),
     percentageHolding |-> PercentageHolding(t.sityBalance, totalBalance),
     population |-> IF Truthy(t.user.population) THEN t.user.population.v ELSE 0]

\* the comparator of the sort puts a before b
Before(a, b) == Cmp(ParseBalance(a.sityBalance), ParseBalance(b.sityBalance)) > 0

\* the entry e put into a sorted sequence, behind the entries that the
\* comparator does not put behind it (Array.prototype.sort is stable)
InsertSorted(sorted, e) ==
    LET ahead == {k \in 1..Len(sorted) : ~Before(e, sorted[k])}
        n == IF ahead = {} THEN 0 ELSE CHOOSE k \in ahead : \A j \in ahead : j <= k
    IN [k \in 1..(Len(sorted) + 1) |->
          IF k <= n THEN sorted[k] ELSE IF k = n + 1 THEN e ELSE sorted[k - 1]]

\* userBalances.sort((a, b) => parseBalance(b.sityBalance) - parseBalance(a.sityBalance))
RECURSIVE SortFrom(_, _, _)
SortFrom(entries, i, sorted) ==
    IF i > Len(entries) THEN sorted
    ELSE SortFrom(entries, i + 1, InsertSorted(sorted, entries[i]))

SortBalances(entries) == SortFrom(entries, 1, <<>>)

\* the run after the results of the balance tasks are in: the totals are
\* summed, the entries of userBalances are made in the order of the results
\* and the array is sorted in place; output refers to that array, and
\* balances.json (output) and sorted_balances.json (the array) are written
StoreBalances(r, results) ==
    LET totalBalance == SumBalance(results, 1)
        totalPopulation == SumPopulation(results, 1)
        userBalances ==
            SortBalances([i \in 1..Len(results) |->
                            BalanceEntry(r.script, results[i], totalBalance)])
        output ==
            [totalPopulation |-> IF r.script = UPDATE_NFTS
                                 THEN FormatBalance(r.script, Units(totalPopulation))
                                 ELSE Num(totalPopulation),
             totalSityBalance |-> FormatBalance(r.script, totalBalance),
             userBalances |-> userBalances]
    IN [r EXCEPT !.pc = "closing",
                 !.stages = @ \o <<"balances", "report">>,
                 !.totalBalance = totalBalance,
                 !.totalPopulation = totalPopulation,
                 !.balancesJson = output,
                 !.sortedBalancesJson = userBalances]

\* every balance task has returned: fetchAndStoreBalances goes on behind its
\* Promise.all and returns
Report ==
    /\ run.pc = "balancing"
    /\ \A i \in 1..Len(tasks) : tasks[i].st = "done"
    /\ run' = StoreBalances(run, tasks)
    /\ UNCHANGED <<retryVars, pager, bot, store, users, alloc, backup, nftCache, tasks, ops,
                   lookups, hist>>

\* where main stands after sendEmail: behind the try block when the summary
\* was delivered, in the catch block when sendMail threw
AfterSendEmail(r, delivered) ==
    IF delivered THEN [r EXCEPT !.summarySent = TRUE] ELSE [r EXCEPT !.aborted = TRUE]

\* the end of main: a run that did not throw builds the summary and sends it;
\* then, and after the catch block of a run that threw, finally closes the
\* connection
Close ==
    /\ run.pc = "closing"
    /\ \E delivered \in BOOLEAN :
          run' = Finally(IF run.aborted THEN run ELSE AfterSendEmail(run, delivered))
    /\ UNCHANGED <<retryVars, pager, bot, store, users, alloc, backup, nftCache, tasks, ops,
                   lookups, hist>>

\* the process has ended and the script is run again on the store the run
\* left (followed after the runs that were not aborted)
NextRun ==
    /\ run.pc = "closed"
    /\ Active = {} /\ Queued = {}
    /\ ~run.aborted
    /\ run.no < MaxRuns
    /\ hist' = [run |-> run.no, updaterDone |-> run.updaterDone, ops |-> ops,
                noneFound |-> run.noneFound]
    /\ run' = [FirstRun(run.script) EXCEPT !.no = run.no + 1]
    /\ users' = <<>>
    /\ alloc' = AllocIdle
    /\ nftCache' = [a \in Addrs |-> Undef]
    /\ tasks' = <<>>
    /\ ops' = <<>>
    /\ lookups' = [a \in Addrs |-> 0]
    /\ UNCHANGED <<retryVars, pager, bot, store, backup>>

Next ==
    \/ RunStart
    \/ GenerateRefNumbers
    \/ UpdaterLaunch
    \/ \E i \in 1..NRec : TaskStart(i)
    \/ \E i \in 1..NRec : TaskSettle(i)
    \/ UpdaterDecide
    \/ DupScan
    \/ CountStaked
    \/ BalancesLaunch
    \/ Report
    \/ Close
    \/ NextRun

Spec == Init /\ [][Next]_vars

\* the older script, run on the same collections
SpecLegacy == LegacyInit /\ [][Next]_vars

\* the event loop runs every callback that is ready, and every remote call
\* settles (fetchWithRetry returns or throws within MAX_RETRIES attempts)
Fairness ==
    /\ WF_vars(\E i \in 1..NRec : TaskStart(i))
    /\ WF_vars(\E i \in 1..NRec : TaskSettle(i))

SpecFair == Init /\ [][Next]_vars /\ Fairness

\* one run of main from start to end, over the collections whose documents
\* are all of one kind: every await of main settles too (the process is not
\* started again unless something starts it)
MainStep ==
    \/ RunStart
    \/ GenerateRefNumbers
    \/ UpdaterLaunch
    \/ UpdaterDecide
    \/ DupScan
    \/ CountStaked
    \/ BalancesLaunch
    \/ Report
    \/ Close

\* a step of main is enabled: main stands before a stage, or behind a
\* Promise.all whose tasks have all returned
MainReady ==
    \/ run.pc \in {"start", "alloc", "updater", "dupscan", "aggregate", "balances",
                   "closing"}
    \/ /\ run.pc \in {"awaiting", "balancing"}
       /\ \A i \in 1..Len(tasks) : tasks[i].st = "done"

\* weak fairness of the steps of main, WF_vars(MainStep), with
\* ENABLED <<MainStep>>_vars written out as MainReady: main goes on once what
\* it awaits has settled
MainFair == []<>(~MainReady) \/ []<><<MainStep>>_vars

MainInit ==
    /\ Init
    /\ \E k \in 1..Len(InitialDocs) : store = [i \in Ids |-> Stored(InitialDocs[k], i)]

SpecMain == MainInit /\ [][Next]_vars /\ Fairness

(***************************************************************************)
(* The duplicate scan of main, over loaded users that share wallet         *)
(* addresses and Telegram ids.                                             *)
(***************************************************************************)
DupWallets == {Undef, Str(""), Str("0xa"), Str("0xb")}

DupTelegrams == {Undef, Num(0), Num(7001), Num(7002)}

\* main stands before the scan; the documents held their refNumber and their
\* NFT fields, so the allocator and the updater wrote nothing
DupInit ==
    /\ RetryIdle
    /\ alloc = AllocIdle
    /\ pager = PagerIdle
    /\ bot = BotIdle
    /\ \E ws \in [Ids -> DupWallets], ts \in [Ids -> DupTelegrams] :
          store = [i \in Ids |->
                     [Doc(i, ws[i], Str("nft_old"), Str("w_old"), OldSnapshot,
                          Str("City Old"), Num(LOWER_BOUND + i))
                        EXCEPT !.telegramId = ts[i]]]
    /\ users = FindAll(store)
    /\ backup = store
    /\ run = [FirstRun(UPDATE_NFTS) EXCEPT !.pc = "dupscan", !.updaterDone = TRUE,
                                           !.stages = <<"backup", "alloc", "updater">>]
    /\ nftCache = [a \in Addrs |-> Undef]
    /\ lookups = [a \in Addrs |-> 0]
    /\ tasks = <<>>
    /\ ops = <<>>
    /\ hist = <<>>

SpecDup == DupInit /\ [][DupScan]_vars

(***************************************************************************)
(* The report of fetchAndStoreBalances, over balances of every magnitude.  *)
(***************************************************************************)
\* the balances the wallet objects may hold, over 1e3: 0, 0.001, 12.346, 999,
\* 999.996, 1000, 1500, 1234.567, 999999, 1e6, 2.5e6, 999999999.996, 1e9,
\* 1.5e9, 9.99e11, 1e12, 2e12, 1.2346e13
BalanceInputs ==
    {Zero, Thousandths(1), Thousandths(12346), Units(999), Thousandths(999996),
     Units(1000), Units(1500), Thousandths(1234567), Units(999999),
     Place(1, 4), Place(2500, 3), Add(Units(999999999), Thousandths(996)),
     Place(1, 5), Place(1500, 4), Place(999, 5), Place(1, 6), Place(2, 6),
     Place(12346, 5)}

\* fetchAndStoreBalances stands behind its Promise.all: every balance task
\* has returned; the run wrote nothing before
BalInitFor(script) ==
    /\ RetryIdle
    /\ alloc = AllocIdle
    /\ pager = PagerIdle
    /\ bot = BotIdle
    /\ store = [i \in Ids |-> Doc(i, Str("0xa"), Str("nft_old"), Str("w_old"),
                                  OldSnapshot, Str("City Old"), Num(LOWER_BOUND + i))]
    /\ users = FindAll(store)
    /\ backup = store
    /\ run = [FirstRun(script) EXCEPT
                 !.pc = "balancing", !.updaterDone = TRUE,
                 !.stages = <<"backup", "alloc", "updater", "dupscan">>]
    /\ nftCache = [a \in Addrs |-> Undef]
    /\ lookups = [a \in Addrs |-> 0]
    /\ \E bs \in [Ids -> BalanceInputs] :
          tasks = [i \in Ids |-> [Task("balance", store[i]) EXCEPT
                                    !.st = "done", !.sityBalance = bs[i]]]
    /\ ops = <<>>
    /\ hist = <<>>

SpecBalances == BalInitFor(UPDATE_NFTS) /\ [][Report]_vars

(***************************************************************************)
(* countStakedSitizens, over documents that hold stake structures.         *)
(***************************************************************************)
\* the lists of staked NFTs a structure may hold
StakeLists ==
    {<<>>, <<Str("0")>>, <<Str("2"), Str("0"), Str("1")>>,
     <<Str("0"), Str("0"), Str("0"), Str("0"), Str("0"), Str("3")>>,
     <<Str("1"), Str("1"), Str("1"), Str("1"), Str("1"), Str("1"), Str("4")>>,
     <<Str("x"), Str("1")>>, <<Str("x")>>, <<Str("5"), Str("5")>>, <<Str("7")>>,
     <<Str("-1"), Str("2")>>}

\* what extra_nested_data may be: absent, a string, an array of one or of
\* three elements, a pair whose second element is no array, a pair whose
\* second element is a list of staked NFTs
StakeStructures ==
    {Undef, Str("none"), Arr(<<Str("a")>>), Arr(<<Str("a"), Arr(<<Str("1")>>), Str("c")>>),
     Arr(<<Str("a"), Str("1")>>)}
      \cup {Arr(<<Str("a"), Arr(l)>>) : l \in StakeLists}

\* main stands before countStakedSitizens; the documents hold NFT snapshots
\* with the content at the top (the shape countStakedSitizens reads), and
\* the run wrote nothing before
StakeInitFor(script) ==
    /\ RetryIdle
    /\ alloc = AllocIdle
    /\ pager = PagerIdle
    /\ bot = BotIdle
    /\ \E es \in [Ids -> StakeStructures] :
          store = [i \in Ids |->
                     Doc(i, Str("0xa"), Str("nft_old"), Str("w_old"),
                         Obj([content |-> [fields |-> [extra_nested_data |-> es[i]]]]),
                         Str("City Old"), Num(LOWER_BOUND + i))]
    /\ users = FindAll(store)
    /\ backup = store
    /\ run = [FirstRun(script) EXCEPT
                 !.pc = "aggregate", !.updaterDone = TRUE,
                 !.stages = <<"backup", "alloc", "updater", "dupscan">>]
    /\ nftCache = [a \in Addrs |-> Undef]
    /\ lookups = [a \in Addrs |-> 0]
    /\ tasks = <<>>
    /\ ops = <<>>
    /\ hist = <<>>

SpecStake == StakeInitFor(UPDATE_NFTS) /\ [][CountStaked]_vars

SpecStake002 == StakeInitFor(PART_002) /\ [][CountStaked]_vars

SpecBalancesLegacy == BalInitFor(PART_001) /\ [][Report]_vars

(***************************************************************************)
(* The webhook service (server.js and its variant unnamed/part_000): one   *)
(* process, the set registeredUsers, and the handlers of the requests in   *)
(* flight, which interleave at their awaits.                               *)
(***************************************************************************)
SERVER_JS == "server.js"
PART_000 == "part_000"

MaxChats == 2        \* chat ids
MaxRequests == 3     \* webhook requests of one process lifetime

ChatIds == 1..MaxChats

\* a message text is the list of its words (split(" ")), a word the list of
\* its parts (split("_")); the empty word is <<"">>
START == <<"/start">>
INVITE == <<"index", "7", "telegram", "9">>
Texts ==
    {<<START>>, <<START, <<"">>, INVITE>>, <<START, INVITE>>,
     <<START, <<"index", "7">>>>, <<<<"/startgame">>, INVITE>>,
     <<<<"hello">>, INVITE>>}

\* req.body.message: absent, without chat, or with chat.id and maybe a text
Messages ==
    {Undef} \cup {Obj([chat |-> Undef, text |-> Str(<<START>>)])}
            \cup {Obj([chat |-> Num(c), text |-> t]) :
                     c \in ChatIds, t \in {Str(w) : w \in Texts} \cup {Undef}}

\* !message || !message.chat
NoChat(message) == ~Truthy(message) \/ ~Truthy(message.v.chat)

\* text && text.startsWith("/start")
IsStart(text) ==
    /\ text # Undef
    /\ text.v[1][1] \in {"/start", "/startgame"}

\* text.split(" ")[1] is truthy: a second word that is not empty
HasParam(text) == Len(text.v) >= 2 /\ text.v[2] # <<"">>

\* startParam.split("_")
StartParam(text) == text.v[2]

\* params.length === 4 && params[0] === "index" && params[2] === "telegram"
ValidInvite(params) ==
    /\ Len(params) = 4
    /\ params[1] = "index"
    /\ params[3] = "telegram"

Handler(chatId, pc) == [chatId |-> chatId, pc |-> pc]

\* the handler ends with the registered block of server.js: the welcome is
\* posted when the chat is not registered yet
Registered(b, k) ==
    LET chatId == b.handlers[k].chatId
    IN IF chatId \notin b.registeredUsers
       THEN [b EXCEPT !.registeredUsers = @ \cup {chatId},
                      !.handlers[k].pc = "registered"]
       ELSE [b EXCEPT !.handlers[k].pc = "acked"]

\* app.post("/webhook") of server.js, up to its first await
ServerReceive(b, message) ==
    LET at(pc) == [b EXCEPT !.handlers = Append(@, Handler(message.v.chat.v, pc))]
    IN IF NoChat(message)
       THEN [b EXCEPT !.handlers = Append(@, Handler(0, "acked"))]
       ELSE IF ~IsStart(message.v.text) THEN at("acked")
       ELSE IF HasParam(message.v.text)
            THEN IF ValidInvite(StartParam(message.v.text))
                 THEN at("invite") ELSE at("invalid")
            ELSE at("welcome")

\* app.post("/webhook") of server.js from an await on: the post it awaited
\* was delivered (ok) or failed
ServerSettle(b, k, ok) ==
    LET h == b.handlers[k]
        delivered == [b EXCEPT !.welcomed[h.chatId] = @ + 1]
    IN CASE h.pc = "welcome" ->
              IF ok THEN Registered(delivered, k)
              ELSE [b EXCEPT !.handlers[k].pc = "error"]
         [] h.pc = "registered" ->
              IF ok THEN [delivered EXCEPT !.handlers[k].pc = "acked"]
              ELSE [b EXCEPT !.handlers[k].pc = "error"]
         [] h.pc \in {"invite", "invalid"} ->
              IF ok THEN [b EXCEPT !.handlers[k].pc = "acked"]
              ELSE [b EXCEPT !.handlers[k].pc = "error"]
         [] h.pc = "error" ->
              [b EXCEPT !.handlers[k].pc = IF ok THEN "acked" ELSE "rejected"]

\* handleStartCommand of part_000, up to its first await
handleStartCommand(b, chatId, text) ==
    LET at(pc) == [b EXCEPT !.handlers = Append(@, Handler(chatId, pc))]
    IN IF ~HasParam(text)
       THEN IF chatId \notin b.registeredUsers
            THEN [at("welcome") EXCEPT !.registeredUsers = @ \cup {chatId}]
            ELSE at("acked")
       ELSE IF ValidInvite(StartParam(text)) THEN at("invite") ELSE at("invalid")

\* app.post("/webhook") of part_000, up to its first await
StartReceive(b, message) ==
    IF NoChat(message)
    THEN [b EXCEPT !.handlers = Append(@, Handler(0, "acked"))]
    ELSE IF ~IsStart(message.v.text)
         THEN [b EXCEPT !.handlers = Append(@, Handler(message.v.chat.v, "acked"))]
         ELSE handleStartCommand(b, message.v.chat.v, message.v.text)

\* part_000 from an await on: sendPhoto and sendMessage catch the failure of
\* their post, sendPhoto sends the fallback text
StartSettle(b, k, ok) ==
    LET h == b.handlers[k]
    IN CASE h.pc = "welcome" ->
              IF ok THEN [b EXCEPT !.welcomed[h.chatId] = @ + 1,
                                   !.handlers[k].pc = "acked"]
              ELSE [b EXCEPT !.handlers[k].pc = "fallback"]
         [] h.pc = "invite" ->
              [b EXCEPT !.handlers[k].pc = IF ok THEN "acked" ELSE "fallback"]
         [] h.pc \in {"invalid", "fallback"} ->
              [b EXCEPT !.handlers[k].pc = "acked"]

\* a webhook request arrives and its handler runs to its first await
BotReceive ==
    /\ bot.variant # "none"
    /\ Len(bot.handlers) < MaxRequests
    /\ \E message \in Messages :
          bot' = IF bot.variant = SERVER_JS THEN ServerReceive(bot, message)
                 ELSE StartReceive(bot, message)
    /\ UNCHANGED <<retryVars, store, users, alloc, runVars, pager>>

\* the post a handler awaits settles and the handler runs to its next await
BotSettle ==
    /\ \E k \in 1..Len(bot.handlers), ok \in BOOLEAN :
          /\ bot.handlers[k].pc \notin {"acked", "rejected"}
          /\ bot' = IF bot.variant = SERVER_JS THEN ServerSettle(bot, k, ok)
                    ELSE StartSettle(bot, k, ok)
    /\ UNCHANGED <<retryVars, store, users, alloc, runVars, pager>>

\* the process starts: nobody is registered
BotInit ==
    /\ RetryIdle
    /\ RunIdle
    /\ store = [i \in Ids |-> Deleted]
    /\ users = <<>>
    /\ alloc = AllocIdle
    /\ pager = PagerIdle
    /\ \E variant \in {SERVER_JS, PART_000} :
          bot = [variant |-> variant, registeredUsers |-> {}, handlers |-> <<>>,
                 welcomed |-> [c \in ChatIds |-> 0]]

BotNext == BotReceive \/ BotSettle

SpecBot == BotInit /\ [][BotNext]_vars

(***************************************************************************)
(* Claims about the updater and the run, checked under Spec, SpecFair and  *)
(* SpecLegacy.                                                             *)
(***************************************************************************)
\* the writes of the updater among the store mutations of a run
UpdaterWrites(log) ==
    {k \in 1..Len(log) :
        \/ log[k].op = "deleteOne"
        \/ log[k].op = "bulkWrite" /\ log[k].stage = "updater"}

\* the lookup tasks of the run that were rejected with an error of a kind
ExhaustedTasks ==
    {i \in 1..Len(tasks) :
        tasks[i].kind = "nft" /\ tasks[i].st = "rejected" /\ tasks[i].error = ExhaustedError}
FailedTasks ==
    {i \in 1..Len(tasks) :
        /\ tasks[i].kind = "nft" /\ tasks[i].st = "rejected"
        /\ tasks[i].error = ErrResp(SERVER_ERROR_STATUS)}

\* C2: when the updater has completed in a run and the script is run again
\* on the store it left, against the same chain, the updater of the second
\* run issues no write to the store: no bulk write and no delete.
C2_UpdaterIdempotent ==
    (run.no > 1 /\ hist.updaterDone) => UpdaterWrites(ops) = {}

C2_Witness ==
    /\ run.no = 2
    /\ run.updaterDone
    /\ run.pc = "closed"
    /\ \E k \in UpdaterWrites(hist.ops) : hist.ops[k].op = "bulkWrite"
    /\ \E k \in UpdaterWrites(hist.ops) : hist.ops[k].op = "deleteOne"

\* C3: every update the updater writes that sets nft also sets nftData, in
\* the same update document, to the object fetched in this run, and no
\* document whose nft the run changed keeps the nftData it had before.
C3_NftDataFresh ==
    /\ \A k \in UpdaterWrites(ops) :
          ops[k].op = "bulkWrite"
            => \A u \in 1..Len(ops[k].updates) :
                  LET set == ops[k].updates[u].set
                  IN "nft" \in DOMAIN set
                       => /\ "nftData" \in DOMAIN set
                          /\ set.nftData = Obj(ObjectResponse(set.nft.v))
    /\ \A i \in Ids :
          (run.updaterDone /\ IsDoc(store[i]) /\ store[i].nft # backup[i].nft)
            => store[i].nftData = Obj(ObjectResponse(store[i].nft.v))

\* C4: when the lookup of one record ends with the retry budget exhausted,
\* the run is not aborted: the updater completes and the duplicate scan, the
\* aggregation and the report are executed before the run ends.
C4_ExhaustionIsolated ==
    (run.pc = "closed" /\ ExhaustedTasks # {})
       => /\ ~run.aborted
          /\ run.updaterDone
          /\ \A st \in {"dupscan", "balances", "report"} :
                \E k \in 1..Len(run.stages) : run.stages[k] = st

\* C5: a failure that is no rate-limit signal, met while one record is
\* resolved, does not abort the run and does not keep the updater from
\* writing what it decides for the other records.
C5_FaultIsolated ==
    FailedTasks # {} => (~run.aborted /\ (run.pc = "closed" => run.updaterDone))

\* C8: at most CONCURRENCY limiter tasks are in flight in every state, and
\* every task that waits in the limiter's queue is started in the end.
C8_ConcurrencyCap ==
    /\ [](Cardinality(Active) <= CONCURRENCY)
    /\ \A i \in 1..NRec : (i \in Queued) ~> (i \notin Queued)

C8_Witness ==
    /\ Cardinality(Active) = CONCURRENCY
    /\ Queued # {}
    /\ Len(tasks) > CONCURRENCY
    /\ \A i \in 1..Len(tasks) : tasks[i].kind = "nft"

\* C9: within one run the remote lookup of a wallet address is started at
\* most once, whatever tasks resolve records of that address.
C9_OneLookupPerAddress ==
    \A a \in Addrs : lookups[a] <= 1

\* C10: when a run has ended, every record for which the resolver returned
\* "none found" in that run is absent from the store, and the run after it
\* issues no delete for a record the run before found none for.
C10_NoneFoundDeleted ==
    /\ run.pc = "closed" => \A id \in run.noneFound : ~IsDoc(store[id])
    /\ run.no > 1
         => \A k \in UpdaterWrites(ops) :
               ops[k].op = "deleteOne" => ops[k].id \notin hist.noneFound

\* what the chain holds for a wallet address when every query succeeds: the
\* response of getObject for the City NFT the address owns, or null
ChainNft(a) == FetchNftFromWallet(a, 1, <<OkResp("ok")>>, CursorOnLastPage).value

\* C11: when the updater has completed, every record with a wallet address
\* whose wallet owns a City NFT (with a wallet object) holds that NFT's id in
\* nft, its wallet object id in walletId and its snapshot in nftData: a
\* difference between the chain and the stored fields was detected and
\* written, also for records that held a scalar nft, a walletId and nftData.
C11_ChangeDetected ==
    run.updaterDone
      => \A i \in Ids :
            (IsDoc(store[i]) /\ HasWallet(store[i])
               /\ Truthy(ChainNft(store[i].walletAddress.v))
               /\ Truthy(ChainNft(store[i].walletAddress.v).v.data.content.fields.wallet))
              => LET nft == ChainNft(store[i].walletAddress.v)
                 IN /\ store[i].nft = Str(nft.v.data.objectId)
                    /\ store[i].walletId = nft.v.data.content.fields.wallet
                    /\ store[i].nftData = nft

\* C12: no store mutation of the allocator or of the updater is issued before
\* the decision for every record of the run is computed (a delete is issued
\* only after the last result was decided), and all decided writes of a stage
\* go to the store in one bulk operation.
C12_DecideThenWrite ==
    /\ \A k \in 1..Len(ops) :
          ops[k].op = "deleteOne" => ops[k].decided = ops[k].results
    /\ Cardinality(UpdaterWrites(ops)) <= 1
    /\ Cardinality({k \in 1..Len(ops) : ops[k].op = "bulkWrite" /\ ops[k].stage = "alloc"}) <= 1

\* C13: a step changes the record store only in a run whose first completed
\* stage is the backup, and until the first write of the run the backup is
\* the copy of the whole collection; a run whose backup failed (no stage
\* completed) changes no record.
C13_BackupPrecedesMutation ==
    /\ [][store' # store => (run.stages # <<>> /\ run.stages[1] = "backup")]_vars
    /\ []((run.stages # <<>> /\ ops = <<>>) => backup = store)
    /\ []((run.aborted /\ run.stages = <<>>) => ops = <<>>)

\* a run wrote to the store after its backup
C13_Witness ==
    /\ ops # <<>>
    /\ run.stages[1] = "backup"
    /\ backup # store

\* C14: the bulk write of generateRefNumbers holds updates only for records
\* that held no refNumber when the run loaded them, and no step of a run
\* changes the refNumber of a record that holds one.
C14_RefNumberAssignedOnce ==
    /\ [](\A k \in 1..Len(ops) :
            (ops[k].op = "bulkWrite" /\ ops[k].stage = "alloc")
              => \A u \in 1..Len(ops[k].updates) :
                    ~Truthy(backup[ops[k].updates[u].id].refNumber))
    /\ [][\A i \in Ids :
             (IsDoc(store[i]) /\ Truthy(store[i].refNumber) /\ IsDoc(store'[i]))
               => store'[i].refNumber = store[i].refNumber]_vars

\* a run assigned a refNumber while another record held one, and the updater
\* wrote to the store afterwards
C14_Witness ==
    /\ \E k \in 1..Len(ops) : ops[k].op = "bulkWrite" /\ ops[k].stage = "alloc"
    /\ \E k \in 1..Len(ops) : ops[k].op = "bulkWrite" /\ ops[k].stage = "updater"
    /\ \E i \in Ids : IsDoc(backup[i]) /\ Truthy(backup[i].refNumber)

\* how often a key is listed
Occurrences(list, key) == Cardinality({k \in 1..Len(list) : list[k] = Str(key)})

\* the loaded users that hold the value x in field f
Holders(us, f, x) == {i \in 1..Len(us) : us[i][f] = x}

\* the duplicate list of a field is right: every non-empty value held is
\* listed once if two or more users hold it and not at all otherwise, and
\* nothing else is listed
DuplicateListRight(list, us, f) ==
    /\ \A i \in 1..Len(us) :
          Truthy(us[i][f])
            => Occurrences(list, ToKey(us[i][f]))
                 = IF Cardinality(Holders(us, f, us[i][f])) >= 2 THEN 1 ELSE 0
    /\ \A k \in 1..Len(list) :
          \E i \in 1..Len(us) : Truthy(us[i][f]) /\ list[k] = Str(ToKey(us[i][f]))

\* C15: after the duplicate scan a non-empty walletAddress (telegramId) is in
\* the reported list exactly once if two or more loaded records hold it and
\* is not in it otherwise, and the scan changes no record.
C15_DuplicateDetection ==
    /\ [](run.pc = "aggregate"
            => /\ DuplicateListRight(run.duplicateWalletAddresses, users, "walletAddress")
               /\ DuplicateListRight(run.duplicateTelegramIds, users, "telegramId"))
    /\ [][run.pc = "dupscan" => (store' = store /\ users' = users)]_vars

\* three records share a wallet address, two of them a Telegram id
C15_Witness ==
    /\ run.pc = "aggregate"
    /\ run.duplicateWalletAddresses = <<Str("0xa")>>
    /\ run.duplicateTelegramIds = <<Str("7002")>>
    /\ \E i \in 1..Len(users) : users[i].telegramId = Num(7001)

\* the power of 1000 a suffix stands for
SuffixPower(suffix) ==
    CASE suffix = "t" -> 4 [] suffix = "b" -> 3 [] suffix = "m" -> 2
      [] suffix = "k" -> 1 [] OTHER -> 0

\* the number a formatted string stands for
FormattedValue(val) == Scaled(val, SuffixPower(val.suffix))

\* a and b differ by no more than half a hundredth of 1000^k
WithinRounding(a, b, k) == Cmp(AbsDiff(a, b), Place(5, k + 1)) <= 0

\* the balance the result of the user with a twitterId held
TrueBalance(id) ==
    (CHOOSE t \in {tasks[i] : i \in 1..Len(tasks)} : t.user.twitterId = id).sityBalance

\* the report was written in this run
Reported ==
    /\ run.pc \in {"closing", "closed"}
    /\ \E k \in 1..Len(run.stages) : run.stages[k] = "report"

\* C16: in sorted_balances.json the balance of an entry is greater than or
\* equal to the balance of the entry that follows it, or the two are
\* formatted to the same value, for balances of every magnitude.
C16_SortedByTrueBalance ==
    Reported
      => \A k \in 1..(Len(run.sortedBalancesJson) - 1) :
            LET e1 == run.sortedBalancesJson[k]
                e2 == run.sortedBalancesJson[k + 1]
            IN \/ Cmp(TrueBalance(e1.twitterId), TrueBalance(e2.twitterId)) >= 0
               \/ FormattedValue(e1.sityBalance) = FormattedValue(e2.sityBalance)

\* C17: parseBalance(formatBalance(n)) differs from n by no more than the
\* rounding of the scaled value to two decimals, whatever suffix
\* formatBalance gives n.
C17_FormatParseRoundTrip ==
    Reported
      => \A k \in 1..Len(run.sortedBalancesJson) :
            LET val == run.sortedBalancesJson[k].sityBalance
                n == TrueBalance(run.sortedBalancesJson[k].twitterId)
            IN WithinRounding(ParseBalance(val), n, SuffixPower(val.suffix))

\* the largest k of 0..4 with 1000^k <= n (0 when n is below 1000)
ExpectedPower(n) ==
    CHOOSE k \in 0..4 :
        /\ k = 0 \/ Cmp(n, Place(1, k + 2)) >= 0
        /\ \A j \in (k + 1)..4 : Cmp(n, Place(1, j + 2)) < 0

\* C18: formatBalance gives a value v the suffix of the largest threshold
\* that does not exceed v (t, b, m, k, none below 1000), and the number before
\* the suffix is v over that threshold, rounded to two decimals.
C18_MagnitudeFormatting ==
    Reported
      => \A k \in 1..Len(run.sortedBalancesJson) :
            LET val == run.sortedBalancesJson[k].sityBalance
                v == TrueBalance(run.sortedBalancesJson[k].twitterId)
            IN /\ SuffixPower(val.suffix) = ExpectedPower(v)
               /\ val.suffix \in {"t", "b", "m", "k", ""}
               /\ val.frac \in 0..99
               /\ WithinRounding(Scaled(val, ExpectedPower(v)), v, ExpectedPower(v))

\* C19: balances.json lists the entries in the order the records were read
\* from the store, and sorted_balances.json lists the same entries in the
\* descending order of the sort.
C19_TwoOrderings ==
    Reported
      => /\ Len(run.balancesJson.userBalances) = Len(tasks)
         /\ \A k \in 1..Len(tasks) :
               run.balancesJson.userBalances[k].twitterId = tasks[k].user.twitterId
         /\ \A k \in 1..Len(tasks) :
               \E j \in 1..Len(tasks) :
                   run.sortedBalancesJson[j] = run.balancesJson.userBalances[k]
         /\ \A k \in 1..(Len(tasks) - 1) :
               ~Before(run.sortedBalancesJson[k + 1], run.sortedBalancesJson[k])

\* the count an entry of a stake list stands for: the non-negative integer it
\* parses to, and nothing when it parses to none
CountOf(entry) ==
    LET n == ParseInt(IF entry.t = "string" THEN entry.v ELSE "x")
    IN IF ~n.nan /\ n.v >= 0 THEN n.v ELSE 0

\* the stake list of a document whose stake structure has exactly two
\* elements, the second a sequence; the empty list for another document
StakeListOf(doc) ==
    LET e == ExtraNestedData(doc)
    IN IF e.t = "array" /\ Len(e.v) = 2 /\ e.v[2].t = "array" THEN e.v[2].v ELSE <<>>

\* the sum of the counts at index i (from 0) over the documents from position k
RECURSIVE CategorySum(_, _, _)
CategorySum(docs, i, k) ==
    IF k > Len(docs) THEN 0
    ELSE (IF i < Len(StakeListOf(docs[k])) THEN CountOf(StakeListOf(docs[k])[i + 1]) ELSE 0)
           + CategorySum(docs, i, k + 1)

RECURSIVE SumOfCategories(_, _)
SumOfCategories(docs, i) ==
    IF i >= Len(typeNames) THEN 0
    ELSE CategorySum(docs, i, 1) + SumOfCategories(docs, i + 1)

\* C20: the stake totals reported are the sums, over the records whose stake
\* structure has exactly two elements with a sequence as the second, of the
\* counts at index i (0..5) for category i (sivilian, general, officer,
\* clown, engineer, legendary), and the grand total is the sum of the six.
C20_StakeHistogram ==
    (run.pc = "balances" /\ run.script # PART_001)
      => /\ \A i \in 0..(Len(typeNames) - 1) :
               run.stakedSitizens[typeNames[i + 1]] = CategorySum(FindAll(store), i, 1)
         /\ run.stakedSitizens.total = SumOfCategories(FindAll(store), 0)

\* the stake structure of a document is malformed: it is there and is no pair
\* with a sequence as second element, or the sequence holds entries and none
\* of them is numeric
Malformed(doc) ==
    LET e == ExtraNestedData(doc)
    IN /\ Truthy(e)
       /\ \/ ~(e.t = "array" /\ Len(e.v) = 2 /\ e.v[2].t = "array")
          \/ /\ StakeListOf(doc) # <<>>
             /\ \A k \in 1..Len(StakeListOf(doc)) :
                   ParseInt(IF StakeListOf(doc)[k].t = "string"
                            THEN StakeListOf(doc)[k].v ELSE "x").nan

\* C21: the stake totals reported are the totals countStakedSitizens computes
\* over the records that are not malformed: a record whose stake structure is
\* no pair, or whose entries are non-numeric, adds nothing to any category
\* nor to the grand total.
C21_StakeFaultIsolation ==
    (run.pc = "balances" /\ run.script # PART_001)
      => run.stakedSitizens
           = CountStakedSitizens(run.script, NoStakes,
                                 SelectSeq(FindAll(store), LAMBDA d : ~Malformed(d)), 1)

\* the balance the chain holds for a wallet object
ChainBalance(walletId) ==
    LET balance == ObjectResponse(walletId).data.content.fields.balance
    IN Thousandths(IF Truthy(balance) THEN balance.v ELSE 0)

\* the results of the balance stage
BalanceTasks == {i \in 1..Len(tasks) : tasks[i].kind = "balance"}

\* no balance task rejects, a fetch that failed yields 0, a result is the
\* balance on chain or 0, and the total written is the sum of the results
BalanceFailuresAbsorbed ==
    /\ \A s \in Scripts, w \in WalletIds : \A b \in BalanceTable[s, w] :
          /\ b.pc = "returned"
          /\ b.error # Pending => b.sityBalance = Zero
    /\ \A i \in BalanceTasks :
          /\ tasks[i].st # "rejected"
          /\ tasks[i].st = "done"
               => tasks[i].sityBalance
                    \in {Zero, IF Truthy(tasks[i].user.walletId)
                               THEN ChainBalance(tasks[i].user.walletId.v) ELSE Zero}
    /\ (run.pc = "balancing") => ~run.aborted
    /\ Reported => run.totalBalance = SumBalance(tasks, 1)

\* C22: a balance fetch that fails (retry budget exhausted or any other
\* error) counts as 0 for its record and rejects nothing; the other records'
\* balances are still fetched and summed, and the balance stage goes on until
\* every record has its result.
C22_BalanceFailuresAbsorbed ==
    /\ []BalanceFailuresAbsorbed
    /\ (run.pc = "balancing")
          ~> (run.pc # "balancing" \/ \A i \in BalanceTasks : tasks[i].st = "done")

\* a report was written where the fetch of one record failed and the balance
\* of another record was summed
C22_Witness ==
    /\ Reported
    /\ \E i, j \in BalanceTasks :
          /\ Truthy(tasks[i].user.walletId)
          /\ ChainBalance(tasks[i].user.walletId.v) # Zero
          /\ tasks[i].sityBalance = Zero
          /\ tasks[j].sityBalance # Zero
          /\ run.totalBalance = tasks[j].sityBalance

\* 2 * |h * total - 10000 * balance| <= total: h hundredths of a percent are
\* balance * 100 / total, rounded to two decimals
ShareOf(h, balance, total) ==
    Cmp(MulSmall(AbsDiff(MulSmall(total, h), MulSmall(balance, 10000)), 2), total) <= 0

\* C23: in the report written, when the total balance is 0 the share of
\* every entry is 0.00% (no division by the total yields it); when the total
\* is positive the share of an entry is its balance times 100 over the
\* total, to two decimals; and the result of a record without a walletId is
\* the balance 0.
C23_PercentageShares ==
    /\ \A i \in BalanceTasks :
          (tasks[i].st = "done" /\ ~Truthy(tasks[i].user.walletId))
            => tasks[i].sityBalance = Zero
    /\ Reported =>
          \A k \in 1..Len(run.sortedBalancesJson) :
             LET e == run.sortedBalancesJson[k]
                 share == e.percentageHolding
             IN /\ ~share.nan
                /\ run.totalBalance = Zero => share.hundredths = 0
                /\ run.totalBalance # Zero
                     => ShareOf(share.hundredths, TrueBalance(e.twitterId),
                                run.totalBalance)

\* a report over a positive total with an entry of a share that is neither 0
\* nor 100 percent, and with the entry of a record without a walletId
C23_Witness ==
    /\ Reported
    /\ run.totalBalance # Zero
    /\ \E k \in 1..Len(run.sortedBalancesJson) :
          run.sortedBalancesJson[k].percentageHolding.hundredths \notin {0, 10000}
    /\ \E i \in BalanceTasks : ~Truthy(tasks[i].user.walletId)

\* the positions of the objects of exactly the configured type in a wallet
Matches(objs) == {k \in 1..Len(objs) : objs[k].type = NFT_TYPE}

\* the lookup has left its page loop
Paged == pager.pc \in {"finding", "returned"}

\* C24: the resolver requests pages until one is empty or carries no next
\* cursor, so that it has seen every object the wallet holds, in order; it
\* returns null only if no object has exactly the configured type, and else
\* the first object of that type in page order.
C24_ResolverCompleteness ==
    /\ (pager.pc = "paging" /\ pager.requests # <<>>)
          => /\ pager.lastObject.data # <<>>
             /\ Truthy(pager.lastObject.nextCursor)
    /\ Paged => pager.allObjects = pager.objs
    /\ pager.pc = "returned"
          => IF Matches(pager.objs) = {} THEN pager.value = Null
             ELSE /\ Truthy(pager.value)
                  /\ \E k \in Matches(pager.objs) :
                        /\ \A j \in Matches(pager.objs) : k <= j
                        /\ pager.value.v.data.objectId = pager.objs[k].objectId

\* an object was resolved from a wallet of several pages that holds two
\* objects of the configured type, the first of them behind the first page
C24_Witness ==
    /\ pager.pc = "returned"
    /\ Truthy(pager.value)
    /\ Len(pager.requests) >= 3
    /\ Cardinality(Matches(pager.objs)) >= 2
    /\ \A k \in Matches(pager.objs) : k > pager.size

\* the cursors requested: none first, then the id of the last object of the
\* page before, and no cursor twice
CursorsAdvance ==
    pager.pc # "idle"
      => /\ \A k \in 1..Len(pager.requests) :
               pager.requests[k] = IF k = 1 THEN Null
                                   ELSE Str(pager.objs[Min((k - 1) * pager.size,
                                                           Len(pager.objs))].objectId)
         /\ \A j, k \in 1..Len(pager.requests) :
               j # k => pager.requests[j] # pager.requests[k]

\* C30: the page loop requests each next page with the object id of the last
\* item of the page before as cursor, never requests a page twice, and
\* eventually stops.
C30_PaginationTerminates ==
    /\ []CursorsAdvance
    /\ <>(pager.pc \in {"returned", "thrown"})

\* a lookup returned after three pages or more
C30_Witness ==
    /\ pager.pc = "returned"
    /\ Len(pager.requests) >= 3
    /\ Len(pager.objs) > 2 * pager.size

\* C25: a run that has ended has closed the store connection, a run that a
\* failure aborted has delivered no summary, and every run ends, whatever
\* happens in it: success, a failing stage, a failing connect or a failing
\* delivery of the summary.
C25_ConnectionReleased ==
    MainFair =>
       /\ [](run.pc = "closed" => run.connection = "closed")
       /\ [](run.aborted => ~run.summarySent)
       /\ (run.pc # "closed") ~> (run.pc = "closed" /\ run.connection = "closed")

\* a run wrote its report, failed to deliver the summary and closed the
\* connection
C25_Witness ==
    /\ Reported
    /\ run.pc = "closed"
    /\ run.aborted
    /\ run.connection = "closed"

\* what a sequence of draws assigns, from position i on: each draw that is
\* not in the used set is assigned (and used from then on), with the number
\* of draws made for its record before it
RECURSIVE FirstFree(_, _, _, _)
FirstFree(used, draws, i, before) ==
    IF i > Len(draws) THEN <<>>
    ELSE IF draws[i] \in used THEN FirstFree(used, draws, i + 1, before + 1)
    ELSE <<[refNumber |-> draws[i], wasted |-> before]>>
           \o FirstFree(used \cup {draws[i]}, draws, i + 1, 0)

\* the draws that the assignments from position i on account for
RECURSIVE DrawsFor(_, _)
DrawsFor(assignments, i) ==
    IF i > Len(assignments) THEN 0
    ELSE assignments[i].wasted + 1 + DrawsFor(assignments, i + 1)

\* C26: the numbers assigned are, in order, the first draws that are not in
\* the used set (the numbers of the store and those assigned before), and
\* the wasted attempts of each are the draws made for its record before it;
\* the counter of the loop holds them until the range is widened.
C26_FirstFreeDraw ==
    alloc.pc \in {"loop", "write"}
      => /\ [k \in 1..Len(alloc.updates) |->
                [refNumber |-> alloc.updates[k].set.refNumber.v,
                 wasted |-> alloc.wasted[k]]]
              = FirstFree(RefNumbersOf(store), alloc.drawn, 1, 0)
         /\ alloc.pc = "loop"
              => /\ alloc.collided
                      = Len(alloc.drawn)
                          - DrawsFor(FirstFree(RefNumbersOf(store), alloc.drawn, 1, 0), 1)
                 /\ alloc.widened = 0 => alloc.attemptCount = alloc.collided

\* the draws 20001, 20002, 20050 on the used set {20001, 20002} assigned
\* 20050 with 2 wasted attempts
C26_Witness ==
    /\ alloc.pc = "write"
    /\ RefNumbersOf(store) = {LOWER_BOUND + 1, LOWER_BOUND + 2}
    /\ alloc.drawn = <<LOWER_BOUND + 1, LOWER_BOUND + 2, FREE_DRAW>>
    /\ Len(alloc.updates) = 1
    /\ alloc.updates[1].set.refNumber = Num(FREE_DRAW)
    /\ alloc.wasted = <<2>>

\* a draw of the loop collided: no number was assigned by the step
Collided == alloc.pc = "loop" /\ alloc'.pc = "loop" /\ alloc'.idx = alloc.idx

\* C28: a step of the allocation loop raises the upper bound, by 100000,
\* exactly when its draw is the 100th that collided since the last widening
\* (or since the start of the record), and the collision counter is 0 then;
\* the lower bound stays 20000 and the upper bound never shrinks.
C28_WideningThreshold ==
    [][(alloc.pc = "loop" /\ alloc'.pc \in {"loop", "write"})
         => /\ alloc'.lower = LOWER_BOUND
            /\ alloc'.upper >= alloc.upper
            /\ (alloc'.upper # alloc.upper)
                  <=> (Collided /\ alloc.attemptCount + 1 = WIDEN_THRESHOLD)
            /\ (alloc'.upper # alloc.upper)
                  => /\ alloc'.upper = alloc.upper + WIDEN_STEP
                     /\ alloc'.attemptCount = 0]_vars

\* the users that hold no refNumber
PendingUsers == {i \in 1..Len(users) : ~Truthy(users[i].refNumber)}

\* C29: under fair draws the allocation loop ends and the bulk write is
\* reached, with a number assigned to each pending record, also when every
\* number drawn from the initial range is in use.
C29_AllocatorTerminates ==
    /\ <>(alloc.pc = "done")
    /\ [](alloc.pc \in {"write", "done"}
            => /\ Len(alloc.updates) = Cardinality(PendingUsers)
               /\ \A i \in PendingUsers :
                     \E k \in 1..Len(alloc.updates) : alloc.updates[k].id = users[i]._id)

\* the bulk write was reached for a pending record though every number drawn
\* from the initial range was in use: the range was widened
C29_Witness ==
    /\ alloc.pc = "done"
    /\ alloc.widened >= 1
    /\ Len(alloc.updates) = 1
    /\ alloc.updates[1].set.refNumber.v > UPPER_BOUND
    /\ DrawPool(LOWER_BOUND, UPPER_BOUND) \subseteq alloc.used

\* C27: in one process lifetime, whatever /start requests arrive and however
\* their handlers interleave, the default welcome message is delivered at
\* most once to each chat id.
C27_WelcomeAtMostOnce ==
    bot.variant # "none" => \A c \in ChatIds : bot.welcomed[c] <= 1

\* the records a step removes from the store
Removed == {i \in Ids : IsDoc(store[i]) /\ ~IsDoc(store'[i])}

\* C31: a record is removed from the store only by the updater, and only when
\* in the same run a lookup of the record's wallet address was started,
\* completed and returned null (none found), the record's task having got
\* that value; a record whose task took the fast path is not removed, and
\* after a lookup failed no record is removed in the run.
C31_DeletionRequiresEvidence ==
    /\ [][\A i \in Removed :
            /\ run.pc = "awaiting"
            /\ \E k \in 1..Len(tasks) :
                  /\ tasks[k].user._id = i
                  /\ tasks[k].looked
                  /\ tasks[k].fetchedNft = Null
                  /\ lookups[tasks[k].user.walletAddress.v] >= 1
                  /\ nftCache[tasks[k].user.walletAddress.v] = Null
            /\ \A k \in 1..Len(tasks) : tasks[k].st = "done"]_vars
    /\ []((\E k \in 1..Len(tasks) : tasks[k].kind = "nft" /\ tasks[k].st = "rejected")
            => \A k \in 1..Len(ops) : ops[k].op # "deleteOne")

\* a run removed a record after its lookup found none, while a record that
\* took the fast path stayed
C31_Witness ==
    /\ run.updaterDone
    /\ \E k \in 1..Len(ops) : ops[k].op = "deleteOne" /\ ops[k].id \in run.noneFound
    /\ \E i \in Ids : /\ IsDoc(store[i]) /\ ~TaskPlan(backup[i]).fetch
                      /\ store[i] = backup[i]

\* the fields the updater may write, and the fields it must leave alone
UpdaterFields == {"walletId", "nft", "nftName", "nftData"}
FrameFields == {"population", "twitterId", "telegramId", "walletAddress", "refNumber"}

\* C32: every update of the updater's bulk write sets only fields among
\* walletId, nft, nftName and nftData, and the step of the updater leaves
\* population, twitterId, telegramId, walletAddress and refNumber of every
\* record that stays in the store as they were, the refNumber the allocator
\* wrote earlier in the run included.
C32_UpdaterFrame ==
    /\ [](\A k \in UpdaterWrites(ops) :
            ops[k].op = "bulkWrite"
              => \A u \in 1..Len(ops[k].updates) :
                    /\ DOMAIN ops[k].updates[u].set \subseteq UpdaterFields
                    /\ DOMAIN ops[k].updates[u].set # {})
    /\ [][run.pc = "awaiting"
            => \A i \in Ids :
                  (IsDoc(store[i]) /\ IsDoc(store'[i]))
                    => \A f \in FrameFields : store'[i][f] = store[i][f]]_vars

\* the updater wrote to a record that the allocator gave its refNumber
\* earlier in the run, and the record holds it still
C32_Witness ==
    /\ run.updaterDone
    /\ \E a, b \in 1..Len(ops) :
          /\ ops[a].op = "bulkWrite" /\ ops[a].stage = "alloc"
          /\ ops[b].op = "bulkWrite" /\ ops[b].stage = "updater"
          /\ \E x \in 1..Len(ops[a].updates), y \in 1..Len(ops[b].updates) :
                /\ ops[a].updates[x].id = ops[b].updates[y].id
                /\ IsDoc(store[ops[a].updates[x].id])
                /\ store[ops[a].updates[x].id].refNumber = ops[a].updates[x].set.refNumber
                /\ store[ops[a].updates[x].id].nft = ops[b].updates[y].set.nft

\* the records of the store that hold no wallet address
NoWallet(st) == {i \in Ids : IsDoc(st[i]) /\ ~Truthy(st[i].walletAddress)}

\* C33: for a record without a wallet address the updater queues no lookup,
\* no update of its bulk write names it and no delete removes it; no step of
\* a run changes any of its fields, except that the allocator sets its
\* refNumber.
C33_NoWalletSkipped ==
    /\ [](\A k \in 1..Len(tasks) :
            tasks[k].kind = "nft" => Truthy(tasks[k].user.walletAddress))
    /\ [](\A k \in UpdaterWrites(ops) :
            IF ops[k].op = "deleteOne" THEN Truthy(backup[ops[k].id].walletAddress)
            ELSE \A u \in 1..Len(ops[k].updates) :
                    Truthy(backup[ops[k].updates[u].id].walletAddress))
    /\ [][\A i \in NoWallet(store) :
            /\ IsDoc(store'[i])
            /\ \A f \in DOMAIN store[i] \ {"refNumber"} : store'[i][f] = store[i][f]
            /\ store'[i].refNumber # store[i].refNumber
                 => (run.pc = "alloc" /\ ~Truthy(store[i].refNumber))]_vars

\* the updater has written and deleted, and a record without a wallet
\* address is in the store, with the refNumber the allocator gave it
C33_Witness ==
    /\ run.updaterDone
    /\ \E k \in UpdaterWrites(ops) : ops[k].op = "bulkWrite"
    /\ \E k \in UpdaterWrites(ops) : ops[k].op = "deleteOne"
    /\ \E i \in NoWallet(store) :
          ~Truthy(backup[i].refNumber) /\ Truthy(store[i].refNumber)

\* the wallet field of a fetched NFT object: fetchedNft?.data?.content?.fields?.wallet
WalletOf(fetchedNft) == fetchedNft.v.data.content.fields.wallet

\* the lookup tasks whose NFT object names no wallet, and those whose NFT
\* object names one
NoWalletField == {k \in 1..Len(tasks) : Truthy(tasks[k].fetchedNft)
                                          /\ ~Truthy(WalletOf(tasks[k].fetchedNft))}
WithWalletField == {k \in 1..Len(tasks) : Truthy(tasks[k].fetchedNft)
                                            /\ Truthy(WalletOf(tasks[k].fetchedNft))}

\* the updates of the updater's bulk write of the step that set field f
UpdatesSetting(f) ==
    IF Len(ops') > Len(ops) /\ ops'[Len(ops')].op = "bulkWrite"
    THEN {u \in 1..Len(ops'[Len(ops')].updates) :
             f \in DOMAIN ops'[Len(ops')].updates[u].set}
    ELSE {}

\* C34: when the NFT object resolved for a record names no wallet, the loop
\* of the updater leaves the record in the store as it was (no update, no
\* delete), counts it in neither counter (each counter is the number of
\* updates that set its field, and none names the record), and goes on: the
\* records whose NFT names a wallet hold that NFT and wallet after the step.
C34_MalformedSkipped ==
    [][(run.pc = "awaiting" /\ run'.pc = "dupscan" /\ run.script = UPDATE_NFTS)
         => /\ \A k \in NoWalletField :
                  /\ store'[tasks[k].user._id] = store[tasks[k].user._id]
                  /\ IsDoc(store[tasks[k].user._id])
            /\ run'.walletIdUpdatedCount = Cardinality(UpdatesSetting("walletId"))
            /\ run'.nftFieldUpdatedCount = Cardinality(UpdatesSetting("nft"))
            /\ \A k \in WithWalletField :
                  /\ store'[tasks[k].user._id].walletId = WalletOf(tasks[k].fetchedNft)
                  /\ store'[tasks[k].user._id].nft
                        = Str(tasks[k].fetchedNft.v.data.objectId)]_vars

\* the updater has completed a run in which it wrote an update and left
\* alone a record whose NFT names no wallet
C34_Witness ==
    /\ run.updaterDone
    /\ run.nftFieldUpdatedCount >= 1
    /\ \E i \in Ids :
          /\ IsDoc(store[i]) /\ HasWallet(store[i])
          /\ Truthy(ChainNft(store[i].walletAddress.v))
          /\ ~Truthy(WalletOf(ChainNft(store[i].walletAddress.v)))
          /\ \A j \in Ids : (j > i /\ IsDoc(backup[j])) => store[j] # backup[j]
          /\ \E j \in Ids : j > i /\ IsDoc(backup[j])

\* the lookup tasks of records whose stored nft is an embedded object
NestedNft == {k \in 1..Len(tasks) : /\ tasks[k].kind = "nft"
                                      /\ Truthy(tasks[k].user.nft)
                                      /\ TypeOf(tasks[k].user.nft) = "object"}

\* the update the step's bulk write holds for the user of task k, if any
UpdatesFor(k) ==
    IF Len(ops') > Len(ops) /\ ops'[Len(ops')].op = "bulkWrite"
    THEN {ops'[Len(ops')].updates[u].set : u \in
             {v \in 1..Len(ops'[Len(ops')].updates) :
                 ops'[Len(ops')].updates[v].id = tasks[k].user._id}}
    ELSE {}

\* C35: the task of a record whose stored nft is an embedded object never
\* returns by the fast path: it returns what the resolver found for the
\* address, with the update forced; and when the NFT found names a wallet,
\* the bulk write of the run holds one update for the record, which sets nft
\* to the object id (a string), nftName to the NFT's name and nftData to the
\* fetched object.
C35_LegacyShapeNormalised ==
    /\ [](\A k \in NestedNft :
            tasks[k].st = "done" => (tasks[k].looked /\ tasks[k].forceUpdate))
    /\ [][(run.pc = "awaiting" /\ run'.pc = "dupscan")
            => \A k \in NestedNft \cap WithWalletField :
                  /\ Cardinality(UpdatesFor(k)) = 1
                  /\ \A set \in UpdatesFor(k) :
                        /\ {"nft", "nftName", "nftData"} \subseteq DOMAIN set
                        /\ set.nft = Str(tasks[k].fetchedNft.v.data.objectId)
                        /\ TypeOf(set.nft) = "string"
                        /\ set.nftName = tasks[k].fetchedNft.v.data.content.fields.name
                        /\ set.nftData = tasks[k].fetchedNft
                  /\ TypeOf(store'[tasks[k].user._id].nft) = "string"]_vars

\* the updater has completed and a record that held an embedded object in
\* nft, with walletId and nftData, holds the id of the NFT of its address
C35_Witness ==
    /\ run.updaterDone
    /\ \E i \in Ids :
          /\ IsDoc(store[i])
          /\ TypeOf(backup[i].nft) = "object"
          /\ Truthy(backup[i].walletId) /\ Truthy(backup[i].nftData)
          /\ store[i].nft = Str(ChainNft(store[i].walletAddress.v).v.data.objectId)
          /\ store[i].nftData = ChainNft(store[i].walletAddress.v)

\* the sum of the populations the documents of a store hold, from id i
RECURSIVE PopulationOf(_, _)
PopulationOf(st, i) ==
    IF i > NRec THEN 0
    ELSE (IF IsDoc(st[i]) /\ Truthy(st[i].population) THEN st[i].population.v ELSE 0)
           + PopulationOf(st, i + 1)

\* C36: the balance stage and the stake count work on the documents read
\* from the store after the updater's writes: there is one balance task per
\* document of the store and none for a deleted record, the task holds the
\* document as the store holds it (with the walletId written in this run),
\* and the total population, the total balance and the stake counters of the
\* report are those of the documents in the store.
C36_AggregationAfterReconciliation ==
    /\ (run.pc = "balancing" \/ Reported)
         => /\ Len(tasks) = Cardinality({i \in Ids : IsDoc(store[i])})
            /\ \A k \in 1..Len(tasks) :
                  /\ tasks[k].kind = "balance"
                  /\ tasks[k].user = store[tasks[k].user._id]
            /\ \A k \in 1..Len(ops) :
                  ops[k].op = "deleteOne"
                    => \A j \in 1..Len(tasks) : tasks[j].user._id # ops[k].id
    /\ Reported
         => /\ run.totalPopulation = PopulationOf(store, 1)
            /\ run.totalBalance = SumBalance(tasks, 1)
            /\ \A k \in 1..Len(tasks) :
                  tasks[k].sityBalance # Zero
                    => tasks[k].sityBalance = ChainBalance(store[tasks[k].user._id].walletId.v)
            /\ run.script = UPDATE_NFTS
                 => run.stakedSitizens
                      = CountStakedSitizens(run.script, NoStakes, FindAll(store), 1)

\* a report was written in a run whose updater deleted a record and wrote
\* the walletId of another, whose balance was fetched and counted
C36_Witness ==
    /\ Reported
    /\ \E k \in 1..Len(ops) : ops[k].op = "deleteOne" /\ Truthy(backup[ops[k].id].population)
    /\ \E k \in 1..Len(tasks) :
          /\ backup[tasks[k].user._id].walletId # tasks[k].user.walletId
          /\ tasks[k].sityBalance # Zero
    /\ run.totalBalance # Zero

\* the documents of the store that hold the key in field f
StoredHolders(f, key) ==
    {i \in Ids : IsDoc(store[i]) /\ Truthy(store[i][f]) /\ ToKey(store[i][f]) = key.v}

\* C37: when the report is written, every wallet address and every Telegram
\* id listed as a duplicate is held by two or more documents of the store.
C37_DuplicatesOfReconciledStore ==
    Reported
      => /\ \A k \in 1..Len(run.duplicateWalletAddresses) :
               Cardinality(StoredHolders("walletAddress", run.duplicateWalletAddresses[k])) >= 2
         /\ \A k \in 1..Len(run.duplicateTelegramIds) :
               Cardinality(StoredHolders("telegramId", run.duplicateTelegramIds[k])) >= 2

\* the grand total of the counters is the sum of the six category totals
TotalsConsistent(types) ==
    types.total = types.sivilian + types.general + types.officer
                    + types.clown + types.engineer + types.legendary

\* C39: after each document countStakedSitizens has processed, and in the
\* result it returns, total is the sum of sivilian, general, officer, clown,
\* engineer and legendary.
C39_StakeTotalsConsistent ==
    (run.pc = "balances" /\ run.script # PART_001)
      => /\ \A n \in 0..Len(FindAll(store)) :
               TotalsConsistent(CountStakedSitizens(run.script, NoStakes,
                                                    SubSeq(FindAll(store), 1, n), 1))
         /\ TotalsConsistent(run.stakedSitizens)

\* the handlers that have ended: the response was sent (res.sendStatus(200),
\* once), or the handler threw before it sent one
Ended == {k \in 1..Len(bot.handlers) : bot.handlers[k].pc \in {"acked", "rejected"}}

\* C40: every webhook request is answered with 200: no handler ends without
\* having sent its response, whatever the message and whichever calls of the
\* messaging API fail, the fallback error message included.
C40_WebhookAlwaysAcknowledges ==
    \A k \in Ended : bot.handlers[k].pc = "acked"

====
